---------------------------- MODULE Spec2Model ----------------------------
(***************************************************************************)
(* Model of the capture parser of app/utils/parser.py: platform detection, *)
(* per-command extraction through the external TextFSM engine, the         *)
(* platform-specific CPU/Memory heuristics, the serial/hardware            *)
(* deduplicator and the assembly of the returned document.                 *)
(*                                                                         *)
(* A Python str is a sequence of one-character strings, so that regular    *)
(* expression search, line splitting, stripping, digit tests and the       *)
(* conversions between text and numbers are computed, not assumed.         *)
(* A Python value (what the engine returns and what the document holds)    *)
(* is a tagged record: str, int, float, none, list or dict.  A dict is the *)
(* sequence of its items in insertion order.                               *)
(***************************************************************************)
EXTENDS Integers, Sequences, FiniteSets, TLC

VARIABLES
    file_content,                   \* parse_network_file's first argument
    filename,                       \* parse_network_file's second argument
    pc,                             \* position inside the running call
    device_platform,                \* local of parse_network_file
    parsed_data_for_file,           \* local of parse_network_file (a dict)
    device_specific_cpu_mem_data,   \* local of parse_network_file (a dict)
    engine,                         \* what parse_output answered, per command
    ret,                            \* the returned document, once returned
    exc,                            \* the exception that left the call, if any
    before,                         \* the documents the deduplicator was run on, in order
    files,                          \* upload_files' argument: the uploads of the request
    position,                       \* how many of them the for loop has taken
    parsed_results,                 \* local of upload_files (a list)
    db,                             \* the ParseResult rows committed so far
    response,                       \* how the request ended, once it has
    calls,                          \* the locals of each call, for calls running together
    env_patterns,                   \* the module's ENV_PATTERNS as the process holds it
    textfsm_templates               \* the module's TEXTFSM_TEMPLATES as the process holds it

\* the variables of one call of parse_network_file
callVars == <<file_content, filename, pc, device_platform, parsed_data_for_file,
              device_specific_cpu_mem_data, engine, ret, exc, before>>

\* the variables of a request of upload_files
requestVars == <<files, position, parsed_results, db, response>>

\* the variables of the process: the calls running together, the module tables
processVars == <<calls, env_patterns, textfsm_templates>>

vars == <<callVars, requestVars, processVars>>

----------------------------------------------------------------------------
(* Characters and strings *)

\* the lower-case letter of each upper-case ASCII letter
LowerOf ==
    ("A" :> "a") @@ ("B" :> "b") @@ ("C" :> "c") @@ ("D" :> "d") @@ ("E" :> "e") @@
    ("F" :> "f") @@ ("G" :> "g") @@ ("H" :> "h") @@ ("I" :> "i") @@ ("J" :> "j") @@
    ("K" :> "k") @@ ("L" :> "l") @@ ("M" :> "m") @@ ("N" :> "n") @@ ("O" :> "o") @@
    ("P" :> "p") @@ ("Q" :> "q") @@ ("R" :> "r") @@ ("S" :> "s") @@ ("T" :> "t") @@
    ("U" :> "u") @@ ("V" :> "v") @@ ("W" :> "w") @@ ("X" :> "x") @@ ("Y" :> "y") @@
    ("Z" :> "z")

DigitChars == <<"0","1","2","3","4","5","6","7","8","9">>

\* str.lower() of one character; what re.IGNORECASE folds both sides with
lower(c) == IF c \in DOMAIN LowerOf THEN LowerOf[c] ELSE c

\* The characters re.search compares: folded under re.IGNORECASE, raw otherwise
Fold(s, ignorecase) ==
    IF ignorecase THEN [i \in DOMAIN s |-> lower(s[i])] ELSE s

\* A literal occurs in text at offset i (1-based)
MatchAt(literal, text, i) ==
    /\ i + Len(literal) - 1 <= Len(text)
    /\ \A j \in 1..Len(literal) : text[i + j - 1] = literal[j]

\* re.search(pattern, text[, re.IGNORECASE]) is not None, for a pattern that is
\* an alternation of literals (given as the set of its alternatives)
re_search(pattern, text, ignorecase) ==
    LET folded == Fold(text, ignorecase)
    IN  \E literal \in pattern :
           LET lit == Fold(literal, ignorecase)
           IN  \E i \in 1..Len(text) : MatchAt(lit, folded, i)

----------------------------------------------------------------------------
(* Static configuration *)

P_huawei_vrp     == <<"h","u","a","w","e","i","_","v","r","p">>
P_huawei_yunshan == <<"h","u","a","w","e","i","_","y","u","n","s","h","a","n">>
P_cisco_ios      == <<"c","i","s","c","o","_","i","o","s">>
P_cisco_nxos     == <<"c","i","s","c","o","_","n","x","o","s">>
P_aruba_aoscx    == <<"a","r","u","b","a","_","a","o","s","c","x">>
P_unknown        == <<"u","n","k","n","o","w","n">>

\* ENV_PATTERNS, an OrderedDict: its items in declaration order
ENV_PATTERNS == <<
    [platform |-> P_huawei_vrp,
     platform_pattern |-> {<<"H","u","a","w","e","i"," ","V","e","r","s","a","t","i","l","e"," ","R","o","u","t","i","n","g"," ","P","l","a","t","f","o","r","m">>, <<"V","R","P"," ","(","R",")">>},
     required_command_pattern |-> {<<"d","i","s","p","l","a","y">>}],
    [platform |-> P_huawei_yunshan,
     platform_pattern |-> {<<"H","u","a","w","e","i"," ","Y","u","n","S","h","a","n"," ","O","S">>},
     required_command_pattern |-> {<<"d","i","s","p","l","a","y">>}],
    [platform |-> P_cisco_ios,
     platform_pattern |-> {<<"C","i","s","c","o"," ","I","O","S">>},
     required_command_pattern |-> {<<"s","h","o","w">>}],
    [platform |-> P_cisco_nxos,
     platform_pattern |-> {<<"C","i","s","c","o"," ","N","e","x","u","s"," ","O","p","e","r","a","t","i","n","g"," ","S","y","s","t","e","m">>, <<"N","X","-","O","S">>},
     required_command_pattern |-> {<<"s","h","o","w">>}],
    [platform |-> P_aruba_aoscx,
     platform_pattern |-> {<<"A","r","u","b","a","O","S","-","C","X">>},
     required_command_pattern |-> {<<"s","h","o","w">>}] >>

\* TEXTFSM_TEMPLATES: per platform, the (command, template) items in order
TEXTFSM_TEMPLATES == <<
    [platform |-> P_cisco_ios, templates |-> <<
        [command |-> "show version", template |-> "show_version"],
        [command |-> "show inventory", template |-> "show_inventory"],
        [command |-> "show interfaces", template |-> "show_interfaces"],
        [command |-> "show processes memory sorted",
         template |-> "show_processes_memory_sorted"],
        [command |-> "show processes cpu history",
         template |-> "show_processes_cpu_history"] >>],
    [platform |-> P_cisco_nxos, templates |-> <<
        [command |-> "show version", template |-> "show_version"],
        [command |-> "show inventory", template |-> "show_inventory"],
        [command |-> "show interface", template |-> "show_interface"],
        [command |-> "show system resources",
         template |-> "show_system_resources"] >>],
    [platform |-> P_aruba_aoscx, templates |-> <<
        [command |-> "show system", template |-> "show_system"],
        [command |-> "show inventory", template |-> "show_inventory"],
        [command |-> "show interface", template |-> "show_interface"] >>],
    [platform |-> P_huawei_vrp, templates |-> <<
        [command |-> "display version", template |-> "display_version"],
        [command |-> "display interface", template |-> "display_interface"],
        [command |-> "display cpu-usage", template |-> "display_cpu_usage"],
        [command |-> "display memory usage",
         template |-> "display_memory_usage"],
        [command |-> "display device", template |-> "display_device"] >>],
    [platform |-> P_huawei_yunshan, templates |-> <<
        [command |-> "display version", template |-> "display_version"],
        [command |-> "display interface", template |-> "display_interface"],
        [command |-> "display cpu-usage", template |-> "display_cpu_usage"],
        [command |-> "display memory usage",
         template |-> "display_memory_usage"],
        [command |-> "display device", template |-> "display_device"] >> ] >>

\* The template table without its aruba_aoscx entry
TemplatesForWithoutAruba(platform) ==
    IF platform # P_aruba_aoscx
          /\ \E i \in DOMAIN TEXTFSM_TEMPLATES : TEXTFSM_TEMPLATES[i].platform = platform
    THEN TEXTFSM_TEMPLATES[CHOOSE i \in DOMAIN TEXTFSM_TEMPLATES :
                              TEXTFSM_TEMPLATES[i].platform = platform].templates
    ELSE <<>>

\* TEXTFSM_TEMPLATES.get(device_platform, {}): the items, <<>> when absent
TemplatesFor(platform) ==
    IF \E i \in DOMAIN TEXTFSM_TEMPLATES : TEXTFSM_TEMPLATES[i].platform = platform
    THEN TEXTFSM_TEMPLATES[CHOOSE i \in DOMAIN TEXTFSM_TEMPLATES :
                              TEXTFSM_TEMPLATES[i].platform = platform].templates
    ELSE <<>>

CISCO_CPU_START_REGEX == <<"l","a","s","t"," ","6","0"," ","m","i","n","u","t","e","s">>
CISCO_CPU_END_REGEX   == <<"l","a","s","t"," ","7","2"," ","h","o","u","r","s">>

----------------------------------------------------------------------------
(* detect_platform *)

\* The body of the for loop's if: both patterns of entry i are found in text
EntryMatches(i, text) ==
    /\ re_search(ENV_PATTERNS[i].platform_pattern, text, TRUE)
    /\ re_search(ENV_PATTERNS[i].required_command_pattern, text, TRUE)

\* The loop keeps going to the end and answers the last entry that matched
RECURSIVE DetectLastFrom(_, _, _)
DetectLastFrom(i, text, found) ==
    IF i > Len(ENV_PATTERNS) THEN found
    ELSE DetectLastFrom(i + 1, text,
             IF EntryMatches(i, text) THEN ENV_PATTERNS[i].platform ELSE found)

\* The loop tests the vendor marker alone
RECURSIVE DetectContentOnlyFrom(_, _)
DetectContentOnlyFrom(i, text) ==
    IF i > Len(ENV_PATTERNS) THEN P_unknown
    ELSE IF re_search(ENV_PATTERNS[i].platform_pattern, text, TRUE)
         THEN ENV_PATTERNS[i].platform
         ELSE DetectContentOnlyFrom(i + 1, text)

\* The for loop over ENV_PATTERNS.items() from entry i on, then "unknown"
RECURSIVE DetectFrom(_, _)
DetectFrom(i, text) ==
    IF i > Len(ENV_PATTERNS) THEN P_unknown
    ELSE IF EntryMatches(i, text) THEN ENV_PATTERNS[i].platform
         ELSE DetectFrom(i + 1, text)

detect_platform_last(text) == DetectLastFrom(1, text, P_unknown)

detect_platform_content_only(text) == DetectContentOnlyFrom(1, text)

\* The table with the generic Cisco entries declared before the Huawei ones
ENV_PATTERNS_cisco_first ==
    <<ENV_PATTERNS[3], ENV_PATTERNS[4], ENV_PATTERNS[1], ENV_PATTERNS[2],
      ENV_PATTERNS[5]>>

RECURSIVE DetectFromIn(_, _, _)
DetectFromIn(table, i, text) ==
    IF i > Len(table) THEN P_unknown
    ELSE IF /\ re_search(table[i].platform_pattern, text, TRUE)
            /\ re_search(table[i].required_command_pattern, text, TRUE)
         THEN table[i].platform
         ELSE DetectFromIn(table, i + 1, text)

detect_platform_cisco_first(text) == DetectFromIn(ENV_PATTERNS_cisco_first, 1, text)

detect_platform(text) == DetectFrom(1, text)

----------------------------------------------------------------------------
(* Python values *)

VStr(s)   == [tag |-> "str", s |-> s]
VInt(n)   == [tag |-> "int", n |-> n]
\* a float with two decimals, held in hundredths: VFloat(2500) is 25.0
VFloat(h) == [tag |-> "float", h |-> h]
VNone     == [tag |-> "none"]
VList(xs) == [tag |-> "list", xs |-> xs]
VDict(kv) == [tag |-> "dict", kv |-> kv]
Item(k, v) == [k |-> k, v |-> v]

IsDict(v) == v.tag = "dict"
IsList(v) == v.tag = "list"

\* key in d
HasKey(d, key) == \E i \in DOMAIN d.kv : d.kv[i].k = key

\* d[key], for a key of d
Get(d, key) == d.kv[CHOOSE i \in DOMAIN d.kv : d.kv[i].k = key].v

\* d.get(key, default)
GetOr(d, key, default) == IF HasKey(d, key) THEN Get(d, key) ELSE default

\* d[key] = v: an existing key keeps its place, a new key is appended
Put(d, key, v) ==
    IF HasKey(d, key)
    THEN VDict([i \in DOMAIN d.kv |->
                 IF d.kv[i].k = key THEN Item(key, v) ELSE d.kv[i]])
    ELSE VDict(Append(d.kv, Item(key, v)))

\* d.update(other)
RECURSIVE UpdateFrom(_, _, _)
UpdateFrom(d, other, i) ==
    IF i > Len(other.kv) THEN d
    ELSE UpdateFrom(Put(d, other.kv[i].k, other.kv[i].v), other, i + 1)

Update(d, other) == UpdateFrom(d, other, 1)

\* list(d.keys())
Keys(d) == [i \in DOMAIN d.kv |-> d.kv[i].k]

\* the truth value Python gives a value in "if v" / "v and ..."
Truthy(v) ==
    CASE v.tag = "none"  -> FALSE
      [] v.tag = "str"   -> v.s # <<>>
      [] v.tag = "int"   -> v.n # 0
      [] v.tag = "float" -> v.h # 0
      [] v.tag = "list"  -> v.xs # <<>>
      [] v.tag = "dict"  -> v.kv # <<>>

----------------------------------------------------------------------------
(* str methods and conversions *)

IsSpace(c) == c \in {" ", "\n", "\t", "\r"}
IsDigitChar(c) == \E i \in DOMAIN DigitChars : DigitChars[i] = c
DigitValue(c) == (CHOOSE i \in DOMAIN DigitChars : DigitChars[i] = c) - 1

RECURSIVE lstrip(_)
lstrip(s) == IF s # <<>> /\ IsSpace(Head(s)) THEN lstrip(Tail(s)) ELSE s

RECURSIVE rstrip(_)
rstrip(s) ==
    IF s # <<>> /\ IsSpace(s[Len(s)]) THEN rstrip(SubSeq(s, 1, Len(s) - 1)) ELSE s

\* s.strip()
strip(s) == rstrip(lstrip(s))

\* s.isdigit(), on the ASCII characters of the model
isdigit(s) == s # <<>> /\ \A i \in DOMAIN s : IsDigitChar(s[i])

\* int(s) of a string of digits
RECURSIVE DigitsToInt(_, _)
DigitsToInt(s, acc) ==
    IF s = <<>> THEN acc ELSE DigitsToInt(Tail(s), 10 * acc + DigitValue(Head(s)))

\* str(n) of an int
RECURSIVE NatToStr(_)
NatToStr(n) ==
    IF n < 10 THEN <<DigitChars[n + 1]>>
    ELSE Append(NatToStr(n \div 10), DigitChars[(n % 10) + 1])

IntToStr(n) == IF n < 0 THEN <<"-">> \o NatToStr(-n) ELSE NatToStr(n)

Raised(name) == [exc |-> name]
Returned(v)  == [exc |-> "none", val |-> v]

\* int(v): surrounding whitespace and one sign are accepted in a str;
\* anything else in a str is a ValueError, None and containers a TypeError
PyInt(v) ==
    CASE v.tag = "int" -> Returned(v.n)
      [] v.tag = "float" -> Returned(IF v.h >= 0 THEN v.h \div 100 ELSE -((-v.h) \div 100))
      [] v.tag = "str" ->
            LET t == strip(v.s)
                signed == t # <<>> /\ Head(t) \in {"+", "-"}
                digits == IF signed THEN Tail(t) ELSE t
            IN  IF isdigit(digits)
                THEN Returned(IF signed /\ Head(t) = "-"
                              THEN -DigitsToInt(digits, 0)
                              ELSE DigitsToInt(digits, 0))
                ELSE Raised("ValueError")
      [] OTHER -> Raised("TypeError")

\* str(v); a container's repr opens with a bracket and is never all digits
PyStr(v) ==
    CASE v.tag = "str" -> v.s
      [] v.tag = "int" -> IntToStr(v.n)
      [] v.tag = "none" -> <<"N","o","n","e">>
      [] v.tag = "list" -> <<"[",".",".",".","]">>
      [] v.tag = "dict" -> <<"{",".",".",".","}">>

\* round(num / den, 0) of integers with den # 0, ties to the even neighbour
RoundHalfEven(num, den) ==
    LET n == IF den < 0 THEN -num ELSE num
        d == IF den < 0 THEN -den ELSE den
        q == n \div d
        r == n - q * d
    IN  IF 2 * r < d THEN q
        ELSE IF 2 * r > d THEN q + 1
        ELSE IF q % 2 = 0 THEN q ELSE q + 1

\* round((memory_used / memory_total) * 100, 2), in hundredths
RoundPercent(memory_used, memory_total) ==
    VFloat(RoundHalfEven(memory_used * 10000, memory_total))

----------------------------------------------------------------------------
(* Splitting text *)

\* offsets of the line feeds of s
NewlinesOf(s) == {i \in DOMAIN s : s[i] = "\n"}

\* the k-th smallest / k-th largest member of a set of offsets
KthSmallest(S, k) == CHOOSE p \in S : Cardinality({q \in S : q <= p}) = k
KthLargest(S, k)  == CHOOSE p \in S : Cardinality({q \in S : q >= p}) = k

Min2(a, b) == IF a <= b THEN a ELSE b

\* s.split("\n", maxsplit)[-1]
SplitLast(s, maxsplit) ==
    LET nl == NewlinesOf(s)
    IN  IF nl = {} THEN s
        ELSE SubSeq(s, KthSmallest(nl, Min2(Cardinality(nl), maxsplit)) + 1, Len(s))

\* s.rsplit("\n", maxsplit)[0]
RsplitFirst(s, maxsplit) ==
    LET nl == NewlinesOf(s)
    IN  IF nl = {} THEN s
        ELSE SubSeq(s, 1, KthLargest(nl, Min2(Cardinality(nl), maxsplit)) - 1)

\* s.splitlines(), for text whose only line boundary is the line feed
RECURSIVE splitlines(_)
splitlines(s) ==
    IF s = <<>> THEN <<>>
    ELSE LET nl == NewlinesOf(s)
         IN  IF nl = {} THEN <<s>>
             ELSE LET p == KthSmallest(nl, 1)
                  IN  <<SubSeq(s, 1, p - 1)>> \o splitlines(SubSeq(s, p + 1, Len(s)))

\* s[n:]
DropFirst(s, n) == SubSeq(s, n + 1, Len(s))

\* lines[-n:]
LastN(lines, n) ==
    IF Len(lines) <= n THEN lines ELSE SubSeq(lines, Len(lines) - n + 1, Len(lines))

\* re.sub("[^0-9]", "", s)
RECURSIVE DigitsOnly(_)
DigitsOnly(s) ==
    IF s = <<>> THEN <<>>
    ELSE IF IsDigitChar(Head(s)) THEN <<Head(s)>> \o DigitsOnly(Tail(s))
         ELSE DigitsOnly(Tail(s))

\* max of a non-empty sequence of ints
MaxOf(ns) == CHOOSE m \in {ns[i] : i \in DOMAIN ns} : \A i \in DOMAIN ns : ns[i] <= m

----------------------------------------------------------------------------
(* extract_cisco_cpu_usage *)

\* first offset >= from at which the literal occurs in text, 0 when none
FirstAt(literal, text, from) ==
    LET at == {i \in from..Len(text) : MatchAt(literal, text, i)}
    IN  IF at = {} THEN 0 ELSE KthSmallest(at, 1)

\* re.search(START + '(.*?)' + END, text, re.DOTALL): found, and group(1)
FindCpu(text) ==
    LET s == FirstAt(CISCO_CPU_START_REGEX, text, 1)
        e == IF s = 0 THEN 0
             ELSE FirstAt(CISCO_CPU_END_REGEX, text, s + Len(CISCO_CPU_START_REGEX))
    IN  IF e = 0 THEN [found |-> FALSE]
        ELSE [found |-> TRUE,
              group1 |-> SubSeq(text, s + Len(CISCO_CPU_START_REGEX), e - 1)]

\* The two characters of a column are joined as they are (no .strip())
RECURSIVE CombineRowsRaw(_, _, _)
CombineRowsRaw(arr_first_row, arr_second_row, i) ==
    IF i > Min2(Len(arr_first_row), Len(arr_second_row)) THEN <<>>
    ELSE << <<arr_first_row[i], arr_second_row[i]>> >>
            \o CombineRowsRaw(arr_first_row, arr_second_row, i + 1)

\* the chart columns read off the two raster rows (lines 89-97)
RECURSIVE CombineRows(_, _, _)
CombineRows(arr_first_row, arr_second_row, i) ==
    IF i > Min2(Len(arr_first_row), Len(arr_second_row)) THEN <<>>
    ELSE <<strip(<<arr_first_row[i], arr_second_row[i]>>)>>
            \o CombineRows(arr_first_row, arr_second_row, i + 1)

RECURSIVE StripEach(_)
StripEach(chars) ==
    IF chars = <<>> THEN <<>>
    ELSE IF strip(<<Head(chars)>>) # <<>>
         THEN <<strip(<<Head(chars)>>)>> \o StripEach(Tail(chars))
         ELSE StripEach(Tail(chars))

CpuUsageValues(cpu_first_row, cpu_second_row) ==
    LET arr_first_row  == DropFirst(cpu_first_row, 4)
        arr_second_row == DropFirst(cpu_second_row, 4)
    IN  IF arr_first_row = <<>> /\ arr_second_row # <<>>
        THEN StripEach(arr_second_row)
        ELSE IF arr_first_row # <<>> /\ arr_second_row # <<>>
             THEN CombineRows(arr_first_row, arr_second_row, 1)
             ELSE <<>>

\* lines 99-107: cpu_max from the values read
CpuMax(cpu_usage_values) ==
    LET digits == SelectSeq(cpu_usage_values, isdigit)
        valid_cpu_values == [i \in DOMAIN digits |-> DigitsToInt(digits[i], 0)]
    IN  IF valid_cpu_values # <<>>
        THEN IntToStr(MaxOf(valid_cpu_values))
        ELSE <<"N","o"," ","n","u","m","e","r","i","c"," ","C","P","U"," ","m","a","x"," ","f","o","u","n","d">>

HasHash(line) == \E i \in DOMAIN line : line[i] = "#"

\* The floor applies to 10 as well: "if numeric_avg <= 10"
CpuAvgFloorInclusive(group1) ==
    LET cpu_row_avg_section ==
            LastN(splitlines(RsplitFirst(SplitLast(group1, 2), 3)), 10)
        avg_raw_line == SelectSeq(cpu_row_avg_section, HasHash)
    IN  IF avg_raw_line # <<>>
        THEN LET extracted_avg == DigitsOnly(avg_raw_line[1])
             IN  IF extracted_avg = <<>>
                 THEN <<"E","r","r","o","r"," ","p","a","r","s","i","n","g"," ","a","v","e","r","a","g","e"," ","C","P","U">>
                 ELSE IF DigitsToInt(extracted_avg, 0) <= 10
                      THEN <<"1">>
                      ELSE IntToStr(DigitsToInt(extracted_avg, 0))
        ELSE <<"1">>

\* Without a '#' line the initial "N/A" is kept (no else branch at 123-124)
CpuAvgNoHashNA(group1) ==
    LET cpu_row_avg_section ==
            LastN(splitlines(RsplitFirst(SplitLast(group1, 2), 3)), 10)
        avg_raw_line == SelectSeq(cpu_row_avg_section, HasHash)
    IN  IF avg_raw_line # <<>>
        THEN LET extracted_avg == DigitsOnly(avg_raw_line[1])
             IN  IF extracted_avg = <<>>
                 THEN <<"E","r","r","o","r"," ","p","a","r","s","i","n","g"," ","a","v","e","r","a","g","e"," ","C","P","U">>
                 ELSE IF DigitsToInt(extracted_avg, 0) < 10
                      THEN <<"1">>
                      ELSE IntToStr(DigitsToInt(extracted_avg, 0))
        ELSE <<"N","/","A">>

\* lines 109-124: cpu_avg from the '#' line of the trailing lines
CpuAvg(group1) ==
    LET cpu_row_avg_section ==
            LastN(splitlines(RsplitFirst(SplitLast(group1, 2), 3)), 10)
        avg_raw_line == SelectSeq(cpu_row_avg_section, HasHash)
    IN  IF avg_raw_line # <<>>
        THEN LET extracted_avg == DigitsOnly(avg_raw_line[1])
             IN  IF extracted_avg = <<>>
                 THEN <<"E","r","r","o","r"," ","p","a","r","s","i","n","g"," ","a","v","e","r","a","g","e"," ","C","P","U">>
                 ELSE IF DigitsToInt(extracted_avg, 0) < 10
                      THEN <<"1">>
                      ELSE IntToStr(DigitsToInt(extracted_avg, 0))
        ELSE <<"1">>

\* The initial "N/A" values are returned when the window is not found (no
\* else branch at lines 125-127)
extract_cisco_cpu_usage_na(text) ==
    LET find_cpu == FindCpu(text)
    IN  IF ~find_cpu.found
        THEN Returned(VDict(<<Item("cpu_max", VStr(<<"N","/","A">>)),
                              Item("cpu_avg", VStr(<<"N","/","A">>))>>))
        ELSE LET cpu_history_section ==
                     RsplitFirst(SplitLast(find_cpu.group1, 2), 13)
                 lines == splitlines(cpu_history_section)
             IN  IF Len(lines) < 2 THEN Raised("IndexError")
                 ELSE Returned(VDict(<<
                        Item("cpu_max",
                             VStr(CpuMax(CpuUsageValues(lines[Len(lines) - 1],
                                                       lines[Len(lines)])))),
                        Item("cpu_avg", VStr(CpuAvg(find_cpu.group1)))>>))

\* extract_cisco_cpu_usage(text): the dict returned, or the exception raised
extract_cisco_cpu_usage(text) ==
    LET find_cpu == FindCpu(text)
    IN  IF ~find_cpu.found
        THEN Returned(VDict(<<
                 Item("cpu_max", VStr(<<"C","a","n","n","o","t"," ","f","i","n","d"," ","m","a","x"," ","C","P","U"," ","(","r","e","g","e","x"," ","f","a","i","l","e","d",")">>)),
                 Item("cpu_avg", VStr(<<"C","a","n","n","o","t"," ","f","i","n","d"," ","a","v","e","r","a","g","e"," ","C","P","U"," ","(","r","e","g","e","x"," ","f","a","i","l","e","d",")">>))>>))
        ELSE LET cpu_history_section ==
                     RsplitFirst(SplitLast(find_cpu.group1, 2), 13)
                 lines == splitlines(cpu_history_section)
             IN  \* splitlines()[-2] of fewer than two lines
                 IF Len(lines) < 2 THEN Raised("IndexError")
                 ELSE Returned(VDict(<<
                        Item("cpu_max",
                             VStr(CpuMax(CpuUsageValues(lines[Len(lines) - 1],
                                                       lines[Len(lines)])))),
                        Item("cpu_avg", VStr(CpuAvg(find_cpu.group1)))>>))

----------------------------------------------------------------------------
(* The record heuristics *)

NA == VStr(<<"N","/","A">>)

\* The division is tried with a total of 0 and its failure handled like the
\* others (no "if memory_total == 0")
calculate_cisco_memory_usage_no_zero_guard(memory_data) ==
    IF ~IsDict(memory_data) THEN VDict(<<Item("memory_usage_percent", NA)>>)
    ELSE LET memory_total == PyInt(GetOr(memory_data, "memory_total", VInt(0)))
             memory_used  == PyInt(GetOr(memory_data, "memory_used", VInt(0)))
         IN  IF memory_total.exc # "none" \/ memory_used.exc # "none"
             THEN VDict(<<Item("memory_usage_percent", NA)>>)
             ELSE IF memory_total.val = 0
                  THEN VDict(<<Item("memory_usage_percent", NA)>>)
                  ELSE VDict(<<Item("memory_usage_percent",
                                   RoundPercent(memory_used.val, memory_total.val))>>)

\* A value that is no integer counts as 0 instead of failing the calculation
calculate_cisco_memory_usage_zero_on_error(memory_data) ==
    IF ~IsDict(memory_data) THEN VDict(<<Item("memory_usage_percent", NA)>>)
    ELSE LET memory_total == PyInt(GetOr(memory_data, "memory_total", VInt(0)))
             memory_used  == PyInt(GetOr(memory_data, "memory_used", VInt(0)))
             total == IF memory_total.exc # "none" THEN 0 ELSE memory_total.val
             used  == IF memory_used.exc # "none" THEN 0 ELSE memory_used.val
         IN  IF total = 0
             THEN VDict(<<Item("memory_usage_percent", VInt(0))>>)
             ELSE VDict(<<Item("memory_usage_percent", RoundPercent(used, total))>>)

\* calculate_cisco_memory_usage(memory_data)
calculate_cisco_memory_usage(memory_data) ==
    IF ~IsDict(memory_data) THEN VDict(<<Item("memory_usage_percent", NA)>>)
    ELSE LET memory_total == PyInt(GetOr(memory_data, "memory_total", VInt(0)))
             memory_used  == PyInt(GetOr(memory_data, "memory_used", VInt(0)))
         IN  IF memory_total.exc # "none" \/ memory_used.exc # "none"
             THEN VDict(<<Item("memory_usage_percent", NA)>>)
             ELSE IF memory_total.val = 0
                  THEN VDict(<<Item("memory_usage_percent", VInt(0))>>)
                  ELSE VDict(<<Item("memory_usage_percent",
                                   RoundPercent(memory_used.val, memory_total.val))>>)

\* The values are tested and stored as they are (no .strip())
process_aruba_system_data_no_strip(system_data) ==
    LET cpu_ok == /\ IsDict(system_data)
                  /\ HasKey(system_data, "cpu")
                  /\ isdigit(PyStr(Get(system_data, "cpu")))
        mem_ok == /\ IsDict(system_data)
                  /\ HasKey(system_data, "memory_usage_percent")
                  /\ isdigit(PyStr(Get(system_data, "memory_usage_percent")))
        cpu_value == IF cpu_ok THEN VStr(PyStr(Get(system_data, "cpu"))) ELSE NA
    IN  VDict(<<Item("cpu_max", cpu_value),
               Item("cpu_avg", cpu_value),
               Item("memory_usage_percent",
                    IF mem_ok
                    THEN VStr(PyStr(Get(system_data, "memory_usage_percent")))
                    ELSE NA)>>)

\* process_aruba_system_data(system_data)
process_aruba_system_data(system_data) ==
    LET cpu_ok == /\ IsDict(system_data)
                  /\ HasKey(system_data, "cpu")
                  /\ isdigit(strip(PyStr(Get(system_data, "cpu"))))
        mem_ok == /\ IsDict(system_data)
                  /\ HasKey(system_data, "memory_usage_percent")
                  /\ isdigit(strip(PyStr(Get(system_data, "memory_usage_percent"))))
        cpu_value == IF cpu_ok THEN VStr(strip(PyStr(Get(system_data, "cpu")))) ELSE NA
    IN  VDict(<<Item("cpu_max", cpu_value),
               Item("cpu_avg", cpu_value),
               Item("memory_usage_percent",
                    IF mem_ok
                    THEN VStr(strip(PyStr(Get(system_data, "memory_usage_percent"))))
                    ELSE NA)>>)

\* s.replace('.', '', 1)
RECURSIVE RemoveFirstDot(_)
RemoveFirstDot(s) ==
    IF s = <<>> THEN <<>>
    ELSE IF Head(s) = "." THEN Tail(s)
         ELSE <<Head(s)>> \o RemoveFirstDot(Tail(s))

\* the characters of s before its first '.'
RECURSIVE BeforeDot(_)
BeforeDot(s) ==
    IF s = <<>> \/ Head(s) = "." THEN <<>>
    ELSE <<Head(s)>> \o BeforeDot(Tail(s))

\* int(float(v)) of a value whose str is digits around at most one '.'
IntOfFloat(v) ==
    IF v.tag = "int" THEN v.n ELSE DigitsToInt(BeforeDot(v.s), 0)

CpuKeys == <<"cpu_usage_rate", "cpu_usage_average", "cpu_usage">>

\* The loop stops at the first key the record holds, numeric or not
RECURSIVE HuaweiCpuFirstPresent(_, _)
HuaweiCpuFirstPresent(cpu_data, i) ==
    IF i > Len(CpuKeys) THEN NA
    ELSE IF HasKey(cpu_data, CpuKeys[i])
         THEN IF isdigit(RemoveFirstDot(PyStr(Get(cpu_data, CpuKeys[i]))))
              THEN VStr(IntToStr(IntOfFloat(Get(cpu_data, CpuKeys[i]))))
              ELSE NA
         ELSE HuaweiCpuFirstPresent(cpu_data, i + 1)

\* the for loop of process_huawei_cpu_data from cpu_keys[i] on
RECURSIVE HuaweiCpuFrom(_, _)
HuaweiCpuFrom(cpu_data, i) ==
    IF i > Len(CpuKeys) THEN NA
    ELSE IF /\ HasKey(cpu_data, CpuKeys[i])
            /\ isdigit(RemoveFirstDot(PyStr(Get(cpu_data, CpuKeys[i]))))
         THEN VStr(IntToStr(IntOfFloat(Get(cpu_data, CpuKeys[i]))))
         ELSE HuaweiCpuFrom(cpu_data, i + 1)

\* The reading is stored under cpu_max as well as cpu_avg
process_huawei_cpu_data_with_max(cpu_data) ==
    IF ~IsDict(cpu_data) THEN VDict(<<Item("cpu_avg", NA)>>)
    ELSE VDict(<<Item("cpu_avg", HuaweiCpuFrom(cpu_data, 1)),
                 Item("cpu_max", HuaweiCpuFrom(cpu_data, 1))>>)

\* process_huawei_cpu_data(cpu_data)
process_huawei_cpu_data(cpu_data) ==
    IF ~IsDict(cpu_data) THEN VDict(<<Item("cpu_avg", NA)>>)
    ELSE VDict(<<Item("cpu_avg", HuaweiCpuFrom(cpu_data, 1))>>)

\* Only total_memory and used_memory are read (no fallback to the other names)
process_huawei_memory_data_no_fallback(memory_data) ==
    IF ~IsDict(memory_data) THEN VDict(<<Item("memory_usage_percent", NA)>>)
    ELSE LET memory_total == PyInt(GetOr(memory_data, "total_memory", VInt(0)))
             memory_used  == PyInt(GetOr(memory_data, "used_memory", VInt(0)))
         IN  IF /\ memory_total.exc = "none"
                /\ memory_used.exc = "none"
                /\ memory_total.val > 0
             THEN VDict(<<Item("memory_usage_percent",
                              RoundPercent(memory_used.val, memory_total.val))>>)
             ELSE VDict(<<Item("memory_usage_percent", NA)>>)

\* process_huawei_memory_data(memory_data)
process_huawei_memory_data(memory_data) ==
    IF ~IsDict(memory_data) THEN VDict(<<Item("memory_usage_percent", NA)>>)
    ELSE LET memory_total ==
                 PyInt(GetOr(memory_data, "total_memory",
                             GetOr(memory_data, "memory_total", VInt(0))))
             memory_used ==
                 PyInt(GetOr(memory_data, "used_memory",
                             GetOr(memory_data, "memory_used", VInt(0))))
         IN  IF /\ memory_total.exc = "none"
                /\ memory_used.exc = "none"
                /\ memory_total.val > 0
             THEN VDict(<<Item("memory_usage_percent",
                              RoundPercent(memory_used.val, memory_total.val))>>)
             ELSE VDict(<<Item("memory_usage_percent", NA)>>)

----------------------------------------------------------------------------
(* deduplicate_serial_and_hardware *)

\* The key is compared as it is written (no .lower())
KeyAsIs(key) == key

\* key.lower(), on the keys the documents of the model use
KeyLower(key) ==
    CASE key = "SERIAL"   -> "serial"
      [] key = "Serial"   -> "serial"
      [] key = "HARDWARE" -> "hardware"
      [] key = "Hardware" -> "hardware"
      [] OTHER -> key

\* hash(v) succeeds: a list or a dict is unhashable
Hashable(v) == v.tag \notin {"list", "dict"}

\* The items are hashed in the order the dict holds them (no sorted())
ItemsInOrder(item) == [tag |-> "tuple", items |-> item.kv]

\* tuple(sorted(item.items())): the items whatever their order.  The keys of
\* a dict differ, so sorting never compares two values.
SortedItems(item) ==
    [tag |-> "tuple", items |-> {<<item.kv[i].k, item.kv[i].v>> : i \in DOMAIN item.kv}]

\* what the seen set holds for an item: item_hash of a dict, the item otherwise
SeenKey(item) == IF IsDict(item) THEN SortedItems(item) ELSE item

\* hashing the item for the seen set succeeds (lines 215-216 and 219)
CanHash(item) ==
    IF IsDict(item) THEN \A i \in DOMAIN item.kv : Hashable(item.kv[i].v)
    ELSE Hashable(item)

\* the for loop of lines 213-221 from value[i] on
RECURSIVE DedupListFrom(_, _, _, _)
DedupListFrom(value, i, seen, deduplicated_list) ==
    IF i > Len(value) THEN Returned(VList(deduplicated_list))
    ELSE IF ~CanHash(value[i]) THEN Raised("TypeError")
    ELSE IF SeenKey(value[i]) \in seen
         THEN DedupListFrom(value, i + 1, seen, deduplicated_list)
         ELSE DedupListFrom(value, i + 1, seen \cup {SeenKey(value[i])},
                            Append(deduplicated_list, value[i]))

\* value.count(x), value.remove(x) with Python's == on items
CountOf(value, x) == Cardinality({j \in DOMAIN value : SeenKey(value[j]) = SeenKey(x)})

RemoveFirstOf(value, x) ==
    LET at == KthSmallest({j \in DOMAIN value : SeenKey(value[j]) = SeenKey(x)}, 1)
    IN  SubSeq(value, 1, at - 1) \o SubSeq(value, at + 1, Len(value))

\* Duplicates are removed from the list while it is iterated over:
\*   for item in value: if value.count(item) > 1: value.remove(item)
RECURSIVE RemoveWhileIterating(_, _)
RemoveWhileIterating(value, i) ==
    IF i > Len(value) THEN value
    ELSE IF CountOf(value, value[i]) > 1
         THEN RemoveWhileIterating(RemoveFirstOf(value, value[i]), i + 1)
         ELSE RemoveWhileIterating(value, i + 1)

DedupListRemoving(value) == Returned(VList(RemoveWhileIterating(value.xs, 1)))

\* lines 211-222: the deduplicated list for a list under "serial"/"hardware"
DedupList(value) == DedupListFrom(value.xs, 1, {}, <<>>)

RECURSIVE deduplicate_serial_and_hardware(_)
RECURSIVE DedupDictFrom(_, _)
RECURSIVE DedupItemsFrom(_, _)

\* A list under "ports" is deduplicated like one under "serial"/"hardware"
RECURSIVE DedupDictFromAlsoPorts(_, _)
DedupDictFromAlsoPorts(data, i) ==
    IF i > Len(data.kv) THEN Returned(data)
    ELSE LET key   == data.kv[i].k
             value == data.kv[i].v
             r == IF KeyLower(key) \in {"serial", "hardware", "ports"} /\ IsList(value)
                  THEN DedupList(value)
                  ELSE deduplicate_serial_and_hardware(value)
         IN  IF r.exc # "none" THEN r
             ELSE DedupDictFromAlsoPorts(Put(data, key, r.val), i + 1)

\* lines 209-224: the items of a dict from the i-th on
DedupDictFrom(data, i) ==
    IF i > Len(data.kv) THEN Returned(data)
    ELSE LET key   == data.kv[i].k
             value == data.kv[i].v
             r == IF KeyLower(key) \in {"serial", "hardware"} /\ IsList(value)
                  THEN DedupList(value)
                  ELSE deduplicate_serial_and_hardware(value)
         IN  IF r.exc # "none" THEN r
             ELSE DedupDictFrom(Put(data, key, r.val), i + 1)

\* lines 225-227: the items of a list from the i-th on
DedupItemsFrom(data, i) ==
    IF i > Len(data.xs) THEN Returned(data)
    ELSE LET r == deduplicate_serial_and_hardware(data.xs[i])
         IN  IF r.exc # "none" THEN r
             ELSE DedupItemsFrom(VList([data.xs EXCEPT ![i] = r.val]), i + 1)

\* deduplicate_serial_and_hardware(data): data after the in-place pass, or
\* the exception that left it
deduplicate_serial_and_hardware(data) ==
    IF IsDict(data) THEN DedupDictFrom(data, 1)
    ELSE IF IsList(data) THEN DedupItemsFrom(data, 1)
    ELSE Returned(data)

----------------------------------------------------------------------------
(* parse_command and the external engine *)

\* A record of a table, from its (field, str value) pairs
Rec(kv) == VDict(kv)
S(chars) == VStr(chars)

\* Tables of the inventory-like commands: "serial" and "hardware" hold lists
VersionTables == {
    VList(<<>>),
    VList(<<Rec(<<Item("hostname", S(<<"s","w","1">>)),
                  Item("serial", VList(<<S(<<"A","1">>), S(<<"A","1">>), S(<<"B","2">>)>>)),
                  Item("hardware", VList(<<S(<<"C","9","3","0","0">>), S(<<"C","9","3","0","0">>)>>))>>)>>) }

InventoryTables == {
    VList(<<Rec(<<Item("name", S(<<"C","h","a","s","s","i","s">>)),
                  Item("serial", VList(<<Rec(<<Item("sn", S(<<"A","1">>))>>),
                                         Rec(<<Item("sn", S(<<"A","1">>))>>),
                                         Rec(<<Item("sn", S(<<"B","2">>))>>)>>))>>),
            Rec(<<Item("name", S(<<"C","h","a","s","s","i","s">>)),
                  Item("ports", VList(<<S(<<"1">>), S(<<"1">>)>>))>>),
            Rec(<<Item("name", S(<<"C","h","a","s","s","i","s">>)),
                  Item("ports", VList(<<S(<<"1">>), S(<<"1">>)>>))>>)>>),
    \* an element no set can hold: a list inside the list
    VList(<<Rec(<<Item("name", S(<<"C","h","a","s","s","i","s">>)),
                  Item("Hardware", VList(<<VList(<<S(<<"C","9","3","0","0">>)>>)>>))>>)>>) }

InterfaceTables == {
    VList(<<Rec(<<Item("interface", S(<<"G","i","0","/","1">>))>>),
            Rec(<<Item("interface", S(<<"G","i","0","/","1">>))>>)>>) }

CiscoMemoryTables == {
    VList(<<>>),
    VList(<<Rec(<<>>)>>),
    VList(<<Rec(<<Item("memory_total", S(<<"1","0","0","0">>)), Item("memory_used", S(<<"2","5","0">>))>>),
            Rec(<<Item("memory_total", S(<<"8">>)), Item("memory_used", S(<<"8">>))>>)>>),
    VList(<<Rec(<<Item("memory_total", S(<<"3">>)), Item("memory_used", S(<<"1">>))>>)>>),
    VList(<<Rec(<<Item("memory_total", S(<<"0">>)), Item("memory_used", S(<<"2","5","0">>))>>)>>),
    VList(<<Rec(<<Item("memory_used", S(<<"2","5","0">>))>>)>>),
    VList(<<Rec(<<Item("memory_total", S(<<"1","0","0","0">>))>>)>>),
    VList(<<Rec(<<Item("memory_total", S(<<"1","0","0","0">>)), Item("memory_used", S(<<"n","/","a">>))>>)>>),
    VList(<<Rec(<<Item("memory_total", VNone), Item("memory_used", S(<<"2","5","0">>))>>)>>) }

CpuHistoryTables == { VList(<<>>) }

NxosResourceTables == {
    VList(<<>>),
    VList(<<Rec(<<>>)>>),
    VList(<<Rec(<<Item("cpu_usage_percent", S(<<"1","2">>)),
                  Item("memory_usage_percent", S(<<"3","4">>))>>)>>),
    VList(<<Rec(<<Item("cpu_usage_percent", S(<<"1","2">>))>>)>>),
    VList(<<Rec(<<Item("memory_usage_percent", VInt(34))>>)>>),
    VList(<<Rec(<<Item("load_avg", S(<<"0",".","5">>))>>)>>) }

ArubaSystemTables == {
    VList(<<>>),
    VList(<<Rec(<<>>)>>),
    VList(<<Rec(<<Item("cpu", S(<<"7">>)), Item("memory_usage_percent", S(<<"4","2">>))>>)>>),
    VList(<<Rec(<<Item("cpu", S(<<" ","7"," ">>)), Item("memory_usage_percent", S(<<"4","2","%">>))>>)>>),
    VList(<<Rec(<<Item("cpu", S(<<"n","/","a">>)), Item("memory_usage_percent", VInt(42))>>)>>),
    VList(<<Rec(<<Item("hostname", S(<<"s","w","1">>))>>)>>) }

HuaweiCpuTables == {
    VList(<<>>),
    VList(<<Rec(<<>>)>>),
    VList(<<Rec(<<Item("cpu_usage_rate", S(<<"1","2",".","5">>))>>)>>),
    VList(<<Rec(<<Item("cpu_usage", S(<<"8">>)), Item("cpu_usage_average", S(<<"3","0">>)),
                  Item("cpu_usage_rate", S(<<"n","/","a">>))>>)>>),
    VList(<<Rec(<<Item("cpu_usage", S(<<"5","%">>))>>)>>),
    VList(<<Rec(<<Item("cpu_usage", VInt(9)), Item("cpu_usage_rate", S(<<"1",".","2",".","3">>))>>)>>) }

HuaweiMemoryTables == {
    VList(<<>>),
    VList(<<Rec(<<>>)>>),
    VList(<<Rec(<<Item("total_memory", S(<<"1","0","0","0">>)), Item("used_memory", S(<<"2","5","0">>))>>)>>),
    VList(<<Rec(<<Item("memory_total", S(<<"1","0","0","0">>)), Item("memory_used", S(<<"5","0","0">>))>>)>>),
    VList(<<Rec(<<Item("total_memory", S(<<"0">>)), Item("used_memory", S(<<"1">>))>>)>>),
    VList(<<Rec(<<Item("total_memory", S(<<"-","5">>)), Item("used_memory", S(<<"1">>))>>)>>),
    VList(<<Rec(<<Item("total_memory", S(<<"x">>)), Item("used_memory", S(<<"1">>))>>)>>),
    VList(<<Rec(<<Item("used_memory", S(<<"1">>))>>)>>) }

\* What parse_output may return for a command (it may also raise)
EngineTables(command) ==
    CASE command \in {"show version", "display version"} -> VersionTables
      [] command \in {"show inventory", "display device"} -> InventoryTables
      [] command \in {"show interfaces", "show interface", "display interface"} ->
            InterfaceTables
      [] command = "show processes memory sorted" -> CiscoMemoryTables
      [] command = "show processes cpu history" -> CpuHistoryTables
      [] command = "show system resources" -> NxosResourceTables
      [] command = "show system" -> ArubaSystemTables
      [] command = "display cpu-usage" -> HuaweiCpuTables
      [] command = "display memory usage" -> HuaweiMemoryTables

\* The outcomes of one call of parse_output
EngineOutcomes(command) ==
    {[raised |-> TRUE]} \cup {[raised |-> FALSE, table |-> t] : t \in EngineTables(command)}

\* An engine failure is not caught and leaves parse_command
parse_command_uncaught(outcome) ==
    IF outcome.raised THEN Raised("Exception") ELSE Returned(outcome.table)

\* parse_command(platform, command, data), given the engine's outcome
parse_command(outcome) ==
    IF outcome.raised THEN Returned(VList(<<>>)) ELSE Returned(outcome.table)

\* An empty result is not stored:
\*   if parsed_output: parsed_data_for_file[command] = parsed_output
StoreParsedIfAny(data, command, parsed_output) ==
    IF Truthy(parsed_output) THEN Put(data, command, parsed_output) ELSE data

\* line 252: parsed_data_for_file[command] = parsed_output
StoreParsed(data, command, parsed_output) == Put(data, command, parsed_output)

----------------------------------------------------------------------------
(* The CPU/Memory branch of parse_network_file *)

\* The first record is not tested (no "and lst[0]")
HasFirstRecordUntested(data, command) ==
    LET lst == GetOr(data, command, VList(<<>>))
    IN  Truthy(lst) /\ IsList(lst)

\* "lst and isinstance(lst, list) and lst[0]" for the table of a command
HasFirstRecord(data, command) ==
    LET lst == GetOr(data, command, VList(<<>>))
    IN  Truthy(lst) /\ IsList(lst) /\ Truthy(lst.xs[1])

FirstRecord(data, command) == Get(data, command).xs[1]

\* The computed fields go to the summary only (no [0].update(...))
UpdateFirstRecordSkipped(data, command, fields) == data

\* parsed_data_for_file[command][0].update(fields)
UpdateFirstRecord(data, command, fields) ==
    Put(data, command,
        VList([Get(data, command).xs EXCEPT ![1] = Update(@, fields)]))

Branch(e, data, summary) == [exc |-> e, data |-> data, summary |-> summary]

\* lines 256-266
CiscoIosBranch(text, data, summary) ==
    LET cisco_cpu_results == extract_cisco_cpu_usage(text)
    IN  IF cisco_cpu_results.exc # "none"
        THEN Branch(cisco_cpu_results.exc, data, summary)
        ELSE LET s1 == Update(summary, cisco_cpu_results.val)
             IN  IF HasFirstRecord(data, "show processes memory sorted")
                 THEN LET calculated_mem == calculate_cisco_memory_usage(
                              FirstRecord(data, "show processes memory sorted"))
                      IN  Branch("none",
                                 UpdateFirstRecord(data, "show processes memory sorted",
                                                   calculated_mem),
                                 Put(s1, "memory_usage_percent",
                                     GetOr(calculated_mem, "memory_usage_percent", VNone)))
                 ELSE Branch("none", data, s1)

\* cpu_usage_percent is stored under cpu_avg only
CiscoNxosBranchAvgOnly(data, summary) ==
    IF HasFirstRecord(data, "show system resources")
    THEN LET sys_data == FirstRecord(data, "show system resources")
             s1 == IF HasKey(sys_data, "cpu_usage_percent")
                   THEN Put(summary, "cpu_avg",
                            VStr(PyStr(Get(sys_data, "cpu_usage_percent"))))
                   ELSE summary
             s2 == IF HasKey(sys_data, "memory_usage_percent")
                   THEN Put(s1, "memory_usage_percent",
                            VStr(PyStr(Get(sys_data, "memory_usage_percent"))))
                   ELSE s1
         IN  Branch("none", data, s2)
    ELSE Branch("none", data, summary)

\* lines 268-277
CiscoNxosBranch(data, summary) ==
    IF HasFirstRecord(data, "show system resources")
    THEN LET sys_data == FirstRecord(data, "show system resources")
             s1 == IF HasKey(sys_data, "cpu_usage_percent")
                   THEN Put(Put(summary, "cpu_avg",
                                VStr(PyStr(Get(sys_data, "cpu_usage_percent")))),
                            "cpu_max", VStr(PyStr(Get(sys_data, "cpu_usage_percent"))))
                   ELSE summary
             s2 == IF HasKey(sys_data, "memory_usage_percent")
                   THEN Put(s1, "memory_usage_percent",
                            VStr(PyStr(Get(sys_data, "memory_usage_percent"))))
                   ELSE s1
         IN  Branch("none", data, s2)
    ELSE Branch("none", data, summary)

\* lines 279-285
ArubaBranch(data, summary) ==
    IF HasFirstRecord(data, "show system")
    THEN LET aruba_cpu_mem_results ==
                 process_aruba_system_data(FirstRecord(data, "show system"))
         IN  Branch("none",
                    UpdateFirstRecord(data, "show system", aruba_cpu_mem_results),
                    Update(summary, aruba_cpu_mem_results))
    ELSE Branch("none", data, summary)

\* lines 287-300
HuaweiBranch(data, summary) ==
    LET afterCpu ==
            IF HasFirstRecord(data, "display cpu-usage")
            THEN LET huawei_cpu_results ==
                         process_huawei_cpu_data(FirstRecord(data, "display cpu-usage"))
                 IN  Branch("none",
                            UpdateFirstRecord(data, "display cpu-usage", huawei_cpu_results),
                            Update(summary, huawei_cpu_results))
            ELSE Branch("none", data, summary)
    IN  IF HasFirstRecord(afterCpu.data, "display memory usage")
        THEN LET huawei_mem_results ==
                     process_huawei_memory_data(
                         FirstRecord(afterCpu.data, "display memory usage"))
             IN  Branch("none",
                        UpdateFirstRecord(afterCpu.data, "display memory usage",
                                          huawei_mem_results),
                        Update(afterCpu.summary, huawei_mem_results))
        ELSE afterCpu

\* lines 255-300: the if/elif chain on device_platform
CpuMemBranch(platform, text, data, summary) ==
    IF platform = P_cisco_ios THEN CiscoIosBranch(text, data, summary)
    ELSE IF platform = P_cisco_nxos THEN CiscoNxosBranch(data, summary)
    ELSE IF platform = P_aruba_aoscx THEN ArubaBranch(data, summary)
    ELSE IF platform \in {P_huawei_vrp, P_huawei_yunshan} THEN HuaweiBranch(data, summary)
    ELSE Branch("none", data, summary)

\* The default summary without its memory field
DefaultCpuMemTwoKeys ==
    VDict(<<Item("cpu_max", NA), Item("cpu_avg", NA)>>)

\* lines 233-237
DefaultCpuMem ==
    VDict(<<Item("cpu_max", NA), Item("cpu_avg", NA), Item("memory_usage_percent", NA)>>)

\* The message names the file instead of the platform
ErrorDocumentNamingFile(platform, name) ==
    VDict(<<Item("platform", VStr(platform)),
            Item("data", VDict(<<Item("Error",
                     VStr(<<"N","o"," ","t","e","m","p","l","a","t","e","s"," ","c","o","n","f","i","g","u","r","e","d"," ","f","o","r"," ">> \o name))>>)),
            Item("filename", VStr(name))>>)

\* lines 243-247
ErrorDocument(platform, name) ==
    VDict(<<Item("platform", VStr(platform)),
            Item("data", VDict(<<Item("Error",
                     VStr(<<"N","o"," ","t","e","m","p","l","a","t","e","s"," ","c","o","n","f","i","g","u","r","e","d"," ","f","o","r"," ">> \o platform))>>)),
            Item("filename", VStr(name))>>)

\* lines 306-310
Document(platform, data, name) ==
    VDict(<<Item("platform", VStr(platform)),
            Item("data", data),
            Item("filename", VStr(name))>>)

----------------------------------------------------------------------------
(* Captures *)

\* A 'show processes cpu history' dump: the two raster rows, the ten scale
\* lines, the axis lines and the closing marker
CpuHistoryChart ==
    <<"C","i","s","c","o"," ","I","O","S"," ","S","o","f","t","w","a","r","e","\n","s","w","1","#","s","h","o","w"," ","p","r","o","c","e","s","s","e","s"," ","c","p","u"," ","h","i","s","t","o","r","y","\n">>
    \o <<" "," "," ","C","P","U","%"," ","p","e","r"," ","m","i","n","u","t","e"," ","(","l","a","s","t"," ","6","0"," ","m","i","n","u","t","e","s",")","\n">>
    \o <<" "," ","*"," ","="," ","m","a","x","i","m","u","m"," ","C","P","U","%"," "," "," ","#"," ","="," ","a","v","e","r","a","g","e"," ","C","P","U","%","\n","\n">>
    \o <<" "," "," "," ","4","2","5","1","\n"," "," "," "," ","9","0","7","3","\n">>
    \o <<"1","0","0","\n"," ","9","0","\n"," ","8","0","\n"," ","7","0","\n"," ","6","0","\n"," ","5","0"," ","*","\n"," ","4","0"," ","#","\n"," ","3","0"," ","#","\n"," ","2","0"," ","#","#","\n"," ","1","0"," ","#","#","#","#","\n">>
    \o <<" "," "," ","0",".",".",".",".","5","\n"," "," "," "," "," "," "," "," ","\n">>
    \o <<" "," "," ","C","P","U","%"," ","p","e","r"," ","h","o","u","r"," ","(","l","a","s","t"," ","7","2"," ","h","o","u","r","s",")","\n">>

\* The same dump of a device under 10%: the tens row is blank
CpuHistoryChartLow ==
    <<"C","i","s","c","o"," ","I","O","S"," ","S","o","f","t","w","a","r","e","\n","s","w","1","#","s","h","o","w"," ","p","r","o","c","e","s","s","e","s"," ","c","p","u"," ","h","i","s","t","o","r","y","\n">>
    \o <<" "," "," ","C","P","U","%"," ","p","e","r"," ","m","i","n","u","t","e"," ","(","l","a","s","t"," ","6","0"," ","m","i","n","u","t","e","s",")","\n">>
    \o <<" "," ","*"," ","="," ","m","a","x","i","m","u","m"," ","C","P","U","%"," "," "," ","#"," ","="," ","a","v","e","r","a","g","e"," ","C","P","U","%","\n","\n">>
    \o <<"\n"," "," "," "," ","5","3","7","3","\n">>
    \o <<"1","0","0","\n"," ","9","0","\n"," ","8","0","\n"," ","7","0","\n"," ","6","0","\n"," ","5","0","\n"," ","4","0","\n"," ","3","0","\n"," ","2","0","\n"," ","1","0","\n">>
    \o <<" "," "," ","0",".",".",".",".","5","\n"," "," "," "," "," "," "," "," ","\n">>
    \o <<" "," "," ","C","P","U","%"," ","p","e","r"," ","h","o","u","r"," ","(","l","a","s","t"," ","7","2"," ","h","o","u","r","s",")","\n">>

\* A dump cut short: both markers, nothing between them but a line feed
CpuHistoryTruncated ==
    <<"C","i","s","c","o"," ","I","O","S"," ","S","o","f","t","w","a","r","e","\n","s","w","1","#","s","h","o","w"," ","p","r","o","c","e","s","s","e","s"," ","c","p","u"," ","h","i","s","t","o","r","y","\n">>
    \o <<"l","a","s","t"," ","6","0"," ","m","i","n","u","t","e","s","\n","l","a","s","t"," ","7","2"," ","h","o","u","r","s","\n">>

Captures == {
    <<>>,
    <<"h","e","l","l","o"," ","w","o","r","l","d">>,
    <<"C","i","s","c","o"," ","I","O","S"," ","S","o","f","t","w","a","r","e",","," ","n","o"," ","c","o","m","m","a","n","d">>,
    <<"C","i","s","c","o"," ","I","O","S"," ","S","o","f","t","w","a","r","e","\n","s","w","1","#","s","h","o","w"," ","v","e","r","s","i","o","n","\n">>,
    CpuHistoryChart,
    CpuHistoryChartLow,
    CpuHistoryTruncated,
    <<"C","i","s","c","o"," ","N","e","x","u","s"," ","O","p","e","r","a","t","i","n","g"," ","S","y","s","t","e","m"," ","(","N","X","-","O","S",")"," ","S","o","f","t","w","a","r","e","\n","s","w","1","#"," ","s","h","o","w"," ","v","e","r","s","i","o","n","\n">>,
    <<"A","r","u","b","a","O","S","-","C","X","\n","s","w","1","#"," ","s","h","o","w"," ","s","y","s","t","e","m","\n">>,
    <<"H","u","a","w","e","i"," ","V","e","r","s","a","t","i","l","e"," ","R","o","u","t","i","n","g"," ","P","l","a","t","f","o","r","m"," ","S","o","f","t","w","a","r","e","\n","<","s","w","1",">","d","i","s","p","l","a","y"," ","v","e","r","s","i","o","n","\n">>,
    <<"H","u","a","w","e","i"," ","Y","u","n","S","h","a","n"," ","O","S","\n","<","s","w","1",">","d","i","s","p","l","a","y"," ","v","e","r","s","i","o","n","\n">> }

Filenames == { <<"a",".","t","x","t">>, <<"b",".","l","o","g">> }

\* no request of upload_files and no other call is running; the module
\* tables are as the module declares them
OutsideRequest ==
    /\ files = <<>>
    /\ position = 0
    /\ parsed_results = <<>>
    /\ db = <<>>
    /\ response = [status |-> "none"]
    /\ calls = <<>>
    /\ env_patterns = ENV_PATTERNS
    /\ textfsm_templates = TEXTFSM_TEMPLATES

----------------------------------------------------------------------------
(* parse_network_file, step by step *)

Init ==
    /\ file_content \in Captures
    /\ filename \in Filenames
    /\ pc = "call"
    /\ device_platform = <<>>
    /\ parsed_data_for_file = VNone
    /\ device_specific_cpu_mem_data = VNone
    /\ engine = <<>>
    /\ ret = VNone
    /\ exc = "none"
    /\ before = <<>>
    /\ OutsideRequest

\* lines 231-247: detection, the locals, the template lookup and the early return
DetectAndLookup ==
    /\ pc = "call"
    /\ device_platform' = detect_platform(file_content)
    /\ parsed_data_for_file' = VDict(<<>>)
    /\ device_specific_cpu_mem_data' = DefaultCpuMem
    /\ IF TemplatesFor(device_platform') = <<>>
       THEN /\ ret' = ErrorDocument(device_platform', filename)
            /\ pc' = "returned"
       ELSE /\ ret' = ret
            /\ pc' = "extract"
    /\ UNCHANGED <<file_content, filename, engine, exc, before>>
    /\ UNCHANGED <<requestVars, processVars>>

\* lines 250-253: one turn of the loop over the platform's templates
ParseCommand ==
    /\ pc = "extract"
    /\ LET templates == TemplatesFor(device_platform)
           command == templates[Len(engine) + 1].command
       IN  \E outcome \in EngineOutcomes(command) :
              LET parsed_output == parse_command(outcome)
              IN  /\ engine' = Append(engine, [command |-> command, outcome |-> outcome])
                  /\ IF parsed_output.exc # "none"
                     THEN /\ exc' = parsed_output.exc
                          /\ pc' = "raised"
                          /\ UNCHANGED parsed_data_for_file
                     ELSE /\ parsed_data_for_file' =
                                 StoreParsed(parsed_data_for_file, command,
                                             parsed_output.val)
                          /\ exc' = exc
                          /\ pc' = IF Len(engine') = Len(templates)
                                   THEN "heuristics" ELSE "extract"
    /\ UNCHANGED <<file_content, filename, device_platform,
                   device_specific_cpu_mem_data, ret, before>>
    /\ UNCHANGED <<requestVars, processVars>>

\* lines 255-300: the CPU/Memory branch of the detected platform
CpuMemHeuristics ==
    /\ pc = "heuristics"
    /\ LET r == CpuMemBranch(device_platform, file_content, parsed_data_for_file,
                             device_specific_cpu_mem_data)
       IN  IF r.exc # "none"
           THEN /\ exc' = r.exc
                /\ pc' = "raised"
                /\ UNCHANGED <<parsed_data_for_file, device_specific_cpu_mem_data>>
           ELSE /\ parsed_data_for_file' = r.data
                /\ device_specific_cpu_mem_data' = r.summary
                /\ exc' = exc
                /\ pc' = "dedup"
    /\ UNCHANGED <<file_content, filename, device_platform, engine, ret, before>>
    /\ UNCHANGED <<requestVars, processVars>>

\* line 303: the deduplicator over parsed_data_for_file
Deduplicate ==
    /\ pc = "dedup"
    /\ LET r == deduplicate_serial_and_hardware(parsed_data_for_file)
       IN  IF r.exc # "none"
           THEN /\ exc' = r.exc
                /\ pc' = "raised"
                /\ UNCHANGED <<parsed_data_for_file, before>>
           ELSE /\ parsed_data_for_file' = r.val
                /\ before' = Append(before, parsed_data_for_file)
                /\ exc' = exc
                /\ pc' = "attach"
    /\ UNCHANGED <<file_content, filename, device_platform,
                   device_specific_cpu_mem_data, engine, ret>>
    /\ UNCHANGED <<requestVars, processVars>>

\* The summary as it was initialised is stored, not the one the branch filled
AttachDefaultAndReturn ==
    /\ pc = "attach"
    /\ parsed_data_for_file' =
           Put(parsed_data_for_file, "Calculated_CPU_Memory", DefaultCpuMem)
    /\ ret' = Document(device_platform, parsed_data_for_file', filename)
    /\ pc' = "returned"
    /\ UNCHANGED <<file_content, filename, device_platform,
                   device_specific_cpu_mem_data, engine, exc, before>>
    /\ UNCHANGED <<requestVars, processVars>>

\* lines 304-310: the summary is stored and the document returned
AttachAndReturn ==
    /\ pc = "attach"
    /\ parsed_data_for_file' =
           Put(parsed_data_for_file, "Calculated_CPU_Memory", device_specific_cpu_mem_data)
    /\ ret' = Document(device_platform, parsed_data_for_file', filename)
    /\ pc' = "returned"
    /\ UNCHANGED <<file_content, filename, device_platform,
                   device_specific_cpu_mem_data, engine, exc, before>>
    /\ UNCHANGED <<requestVars, processVars>>

Next ==
    \/ DetectAndLookup
    \/ ParseCommand
    \/ CpuMemHeuristics
    \/ Deduplicate
    \/ AttachAndReturn

Spec == Init /\ [][Next]_vars

----------------------------------------------------------------------------
(* detect_platform alone, over texts made of marker phrases *)

MaxPhrases == 4

Phrases == <<
    <<"v","r","p"," ","(","r",")">>,
    <<"H","u","a","w","e","i"," ","Y","u","n","S","h","a","n"," ","O","S">>,
    <<"C","I","S","C","O"," ","I","O","S">>,
    <<"n","x","-","o","s">>,
    <<"A","r","u","b","a","O","S","-","C","X">>,
    <<"S","h","o","w">>,
    <<"d","i","s","p","l","a","y">> >>

\* the phrases picked, one per line
RECURSIVE JoinPhrases(_)
JoinPhrases(picks) ==
    IF picks = <<>> THEN <<>>
    ELSE Phrases[Head(picks)] \o <<"\n">> \o JoinPhrases(Tail(picks))

InitDetect ==
    /\ \E n \in 0..MaxPhrases : \E picks \in [1..n -> DOMAIN Phrases] :
          file_content = JoinPhrases(picks)
    /\ filename = <<>>
    /\ pc = "call"
    /\ device_platform = <<>>
    /\ parsed_data_for_file = VNone
    /\ device_specific_cpu_mem_data = VNone
    /\ engine = <<>>
    /\ ret = VNone
    /\ exc = "none"
    /\ before = <<>>
    /\ OutsideRequest

\* line 231
DetectPlatform ==
    /\ pc = "call"
    /\ device_platform' = detect_platform(file_content)
    /\ pc' = "detected"
    /\ UNCHANGED <<file_content, filename, parsed_data_for_file,
                   device_specific_cpu_mem_data, engine, ret, exc, before>>
    /\ UNCHANGED <<requestVars, processVars>>

NextDetect == DetectPlatform

SpecDetect == InitDetect /\ [][NextDetect]_vars

----------------------------------------------------------------------------
(* deduplicate_serial_and_hardware alone, run and run again *)

MaxListLen == 4
MaxPasses == 2

ListItems == <<
    S(<<"A","1">>),
    Rec(<<Item("sn", S(<<"A","1">>))>>),
    Rec(<<Item("sn", S(<<"B","2">>))>>),
    Rec(<<Item("sn", S(<<"A","1">>)), Item("pid", S(<<"X">>))>>),
    Rec(<<Item("pid", S(<<"X">>)), Item("sn", S(<<"A","1">>))>>),
    VList(<<S(<<"A","1">>)>>) >>

ListsOfItems ==
    UNION { {VList([i \in 1..n |-> ListItems[picks[i]]]) :
                picks \in [1..n -> DOMAIN ListItems]} : n \in 0..MaxListLen }

\* Documents that hold the list under a key, at some depth
DocumentsHolding(lst) == {
    VDict(<<Item("show inventory", VList(<<Rec(<<Item("serial", lst)>>)>>))>>),
    VDict(<<Item("show version", VList(<<Rec(<<Item("Hardware", lst)>>)>>))>>),
    VDict(<<Item("show inventory", VList(<<Rec(<<Item("ports", lst)>>)>>))>>),
    VDict(<<Item("show inventory",
                 VList(<<Rec(<<Item("slots",
                      VList(<<Rec(<<Item("SERIAL", lst)>>)>>))>>)>>))>>),
    \* a list under "hardware" inside an element of a list under "serial"
    VDict(<<Item("show inventory",
                 VList(<<Rec(<<Item("serial",
                      VList(<<Rec(<<Item("hardware", lst)>>)>>))>>)>>))>>) }

InitDedup ==
    /\ \E lst \in ListsOfItems : parsed_data_for_file \in DocumentsHolding(lst)
    /\ file_content = <<>>
    /\ filename = <<>>
    /\ pc = "dedup"
    /\ device_platform = <<>>
    /\ device_specific_cpu_mem_data = VNone
    /\ engine = <<>>
    /\ ret = VNone
    /\ exc = "none"
    /\ before = <<>>
    /\ OutsideRequest

\* line 303, again on the document it has just been run on
DeduplicateAgain ==
    /\ pc = "dedup"
    /\ Len(before) < MaxPasses
    /\ LET r == deduplicate_serial_and_hardware(parsed_data_for_file)
       IN  IF r.exc # "none"
           THEN /\ exc' = r.exc
                /\ pc' = "raised"
                /\ UNCHANGED <<parsed_data_for_file, before>>
           ELSE /\ parsed_data_for_file' = r.val
                /\ before' = Append(before, parsed_data_for_file)
                /\ UNCHANGED <<pc, exc>>
    /\ UNCHANGED <<file_content, filename, device_platform,
                   device_specific_cpu_mem_data, engine, ret>>
    /\ UNCHANGED <<requestVars, processVars>>

NextDedup == DeduplicateAgain

SpecDedup == InitDedup /\ [][NextDedup]_vars

----------------------------------------------------------------------------
(* The CPU/Memory branch, entered with the extraction loop already run *)

\* A 'show processes cpu history' dump from its two raster rows and the four
\* lowest lines of its scale
ChartHead ==
    <<"C","i","s","c","o"," ","I","O","S"," ","S","o","f","t","w","a","r","e","\n","s","w","1","#","s","h","o","w"," ","p","r","o","c","e","s","s","e","s"," ","c","p","u"," ","h","i","s","t","o","r","y","\n">>
    \o <<" "," "," ","C","P","U","%"," ","p","e","r"," ","m","i","n","u","t","e"," ","(","l","a","s","t"," ","6","0"," ","m","i","n","u","t","e","s",")","\n">>
    \o <<" "," ","*"," ","="," ","m","a","x","i","m","u","m"," ","C","P","U","%"," "," "," ","#"," ","="," ","a","v","e","r","a","g","e"," ","C","P","U","%","\n","\n">>

ScaleTop == <<"1","0","0","\n"," ","9","0","\n"," ","8","0","\n"," ","7","0","\n"," ","6","0","\n"," ","5","0"," ","*","\n">>

ChartTail == <<"\n"," "," "," ","0",".",".",".",".","5","\n"," "," "," "," "," "," "," "," ","\n"," "," "," ","C","P","U","%"," ","p","e","r"," ","h","o","u","r"," ","(","l","a","s","t"," ","7","2"," ","h","o","u","r","s",")","\n">>

Chart(row1, row2, scale) ==
    ChartHead \o row1 \o <<"\n">> \o row2 \o <<"\n">> \o ScaleTop \o scale \o ChartTail

\* the tens row: full, empty, blank, partly blank, short, with a gap, no digit
RasterRow1s == { <<" "," "," "," ","4","2","5","1">>, <<>>, <<" "," "," "," "," "," "," "," ">>, <<" "," "," "," "," ","1"," "," ">>, <<" "," "," "," ","4">>, <<" "," "," "," ","5"," "," ","7">>, <<" "," "," "," ","x">> }

\* the ones row
RasterRow2s == { <<" "," "," "," ","9","0","7","3">>, <<" "," "," "," ","5","3","7","3">>, <<" "," "," "," ">>, <<" "," "," "," "," ","x"," ","2">>, <<" "," "," "," ","0","0","0","0">> }

ScaleBottoms == {
    <<" ","4","0"," ","#","\n"," ","3","0"," ","#","\n"," ","2","0"," ","#","#","\n"," ","1","0"," ","#","#","#","#">>,
    <<" ","4","0","\n"," ","3","0","\n"," ","1","1"," ","#","\n"," ","1","0"," ","#">>,
    <<" ","4","0","\n"," ","3","0","\n"," ","2","0","\n"," ","1","0"," ","#">>,
    <<" ","4","0","\n"," ","3","0","\n"," ","2","0","\n","0","1","0"," ","#">>,
    <<" ","4","0","\n"," ","3","0","\n"," ","2","0","\n"," "," ","9"," ","#">>,
    <<" ","4","0","\n"," ","3","0","\n"," ","2","0","\n"," "," "," "," ","#">>,
    <<" ","4","0","\n"," ","3","0","\n"," ","2","0","\n"," ","1","0">> }

ChartCaptures ==
    {Chart(row1, row2, scale) :
        row1 \in RasterRow1s, row2 \in RasterRow2s, scale \in ScaleBottoms}

\* Cisco IOS captures without the window: no marker, the opening marker
\* alone, the closing marker first, the markers in another letter case
NoWindowCaptures == {
    <<"C","i","s","c","o"," ","I","O","S"," ","S","o","f","t","w","a","r","e","\n","s","w","1","#","s","h","o","w"," ","v","e","r","s","i","o","n","\n">>,
    <<"C","i","s","c","o"," ","I","O","S"," ","S","o","f","t","w","a","r","e","\n","s","w","1","#","s","h","o","w"," ","p","r","o","c","e","s","s","e","s"," ","c","p","u"," ","h","i","s","t","o","r","y","\n">>
        \o <<" "," "," ","C","P","U","%"," ","p","e","r"," ","m","i","n","u","t","e"," ","(","l","a","s","t"," ","6","0"," ","m","i","n","u","t","e","s",")","\n"," "," "," "," ","4","2","5","1","\n"," "," "," "," ","9","0","7","3","\n"," ","1","0"," ","#","\n">>,
    <<"C","i","s","c","o"," ","I","O","S","\n","s","h","o","w","\n","l","a","s","t"," ","7","2"," ","h","o","u","r","s","\n"," "," "," "," ","4","2","\n"," "," "," "," ","5","1","\n"," ","1","0"," ","#","\n","l","a","s","t"," ","6","0"," ","m","i","n","u","t","e","s","\n">>,
    <<"C","i","s","c","o"," ","I","O","S","\n","s","h","o","w","\n","L","a","s","t"," ","6","0"," ","M","i","n","u","t","e","s","\n","\n","\n"," "," "," "," ","4","2","\n"," "," "," "," ","5","1","\n","L","a","s","t"," ","7","2"," ","H","o","u","r","s","\n">> }

\* Captures whose window is too short for the fixed slicing
ShortWindowCaptures == {
    CpuHistoryTruncated,
    <<"C","i","s","c","o"," ","I","O","S","\n","s","h","o","w","\n","l","a","s","t"," ","6","0"," ","m","i","n","u","t","e","s",")","\n","\n","\n"," "," "," "," ","4","2","\n"," "," "," "," ","5","1","\n"," ","4","0"," ","#","\n","\n","\n","l","a","s","t"," ","7","2"," ","h","o","u","r","s","\n">> }

NxosCapture   == <<"C","i","s","c","o"," ","N","e","x","u","s"," ","O","p","e","r","a","t","i","n","g"," ","S","y","s","t","e","m"," ","(","N","X","-","O","S",")"," ","S","o","f","t","w","a","r","e","\n","s","w","1","#"," ","s","h","o","w"," ","v","e","r","s","i","o","n","\n">>
ArubaCapture  == <<"A","r","u","b","a","O","S","-","C","X","\n","s","w","1","#"," ","s","h","o","w"," ","s","y","s","t","e","m","\n">>
HuaweiCaptures == {
    <<"H","u","a","w","e","i"," ","V","e","r","s","a","t","i","l","e"," ","R","o","u","t","i","n","g"," ","P","l","a","t","f","o","r","m"," ","S","o","f","t","w","a","r","e","\n","<","s","w","1",">","d","i","s","p","l","a","y"," ","v","e","r","s","i","o","n","\n">>,
    <<"H","u","a","w","e","i"," ","Y","u","n","S","h","a","n"," ","O","S","\n","<","s","w","1",">","d","i","s","p","l","a","y"," ","v","e","r","s","i","o","n","\n">> }

\* a field the record does not hold
Absent == [tag |-> "absent"]

IsPresent(item) == item.v # Absent

\* the record of the fields that are present
RecOf(items) == VDict(SelectSeq(items, IsPresent))

CiscoMemoryRecords ==
    {RecOf(<<Item("memory_total", t), Item("memory_used", u)>>) :
        t \in {Absent, S(<<"1","0","0","0">>), S(<<"0">>), S(<<"3">>), S(<<"-","8">>), S(<<" ","3","2"," ">>), S(<<"1","2",".","5">>),
               S(<<"n","/","a">>), S(<<>>), VNone, VInt(1000)},
        u \in {Absent, S(<<"2","5","0">>), S(<<"1">>), S(<<"0">>), S(<<"x">>), VInt(250)}}
    \cup {Rec(<<Item("pid", S(<<"1">>))>>)}

HuaweiCpuReadings == {Absent, S(<<"1","2",".","5">>), S(<<"n","/","a">>), S(<<"8">>), VInt(9)}

HuaweiCpuRecords ==
    {RecOf(<<Item("cpu_usage", c), Item("cpu_usage_average", b),
             Item("cpu_usage_rate", a)>>) :
        a \in HuaweiCpuReadings, b \in HuaweiCpuReadings, c \in HuaweiCpuReadings}
    \cup {Rec(<<Item("cpu_usage_rate", v), Item("cpu_usage", S(<<"3">>))>>) :
            v \in {S(<<"1",".","2",".","3">>), S(<<"5","%">>), S(<<".","5">>), S(<<"7",".">>), S(<<" ","8">>), S(<<".">>), S(<<>>), VNone}}

HuaweiMemoryRecords ==
    {RecOf(<<Item("total_memory", t1), Item("memory_total", t2),
             Item("used_memory", u1), Item("memory_used", u2)>>) :
        t1 \in {Absent, S(<<"1","0","0","0">>), S(<<"0">>), S(<<"-","5">>), S(<<"x">>), VNone},
        t2 \in {Absent, S(<<"2","0","0","0">>), S(<<"y">>)},
        u1 \in {Absent, S(<<"2","5","0">>), S(<<"z">>)},
        u2 \in {Absent, S(<<"5","0","0">>)}}

ArubaSystemRecords ==
    {RecOf(<<Item("hostname", S(<<"s","w","1">>)), Item("cpu", c),
             Item("memory_usage_percent", m)>>) :
        c \in {Absent, S(<<"7">>), S(<<" ","7"," ">>), S(<<"n","/","a">>), S(<<"7","%">>), S(<<"0","7">>), S(<<>>),
               VInt(7), VNone},
        m \in {Absent, S(<<"4","2">>), S(<<"4","2","%">>), S(<<" ","4","2","\n">>), S(<<"4"," ","2">>), VInt(42)}}

NxosResourceRecords ==
    {RecOf(<<Item("load_avg", S(<<"0",".","5">>)), Item("cpu_usage_percent", c),
             Item("memory_usage_percent", m)>>) :
        c \in {Absent, S(<<"1","2">>), S(<<"n","/","a">>), S(<<>>), VInt(12), VNone},
        m \in {Absent, S(<<"3","4">>), S(<<>>), VInt(34)}}

\* the tables the engine may answer with a record set: none, the empty
\* record, each record alone, a record followed by another
TablesOf(records) ==
    {VList(<<>>), VList(<<Rec(<<>>)>>)}
    \cup {VList(<<r>>) : r \in records}
    \cup {VList(<<r, Rec(<<Item("pid", S(<<"2">>))>>)>>) : r \in records}

\* One call: the capture, and the table the engine answers per command (it
\* raises for a command that has none here)
Case(text, given) == [text |-> text, given |-> given]

Answer(command, table) == [command |-> command, table |-> table]

HeuristicCases ==
    {Case(text, <<Answer("show processes memory sorted",
                         VList(<<Rec(<<Item("memory_total", S(<<"1","0","0","0">>)),
                                       Item("memory_used", S(<<"2","5","0">>))>>)>>))>>) :
        text \in ChartCaptures \cup NoWindowCaptures \cup ShortWindowCaptures}
    \cup {Case(text, <<Answer("show processes memory sorted", table)>>) :
            text \in {CpuHistoryChart, <<"C","i","s","c","o"," ","I","O","S"," ","S","o","f","t","w","a","r","e","\n","s","w","1","#","s","h","o","w"," ","v","e","r","s","i","o","n","\n">>},
            table \in TablesOf(CiscoMemoryRecords)}
    \cup {Case(text, <<>>) : text \in {CpuHistoryChart, CpuHistoryChartLow}}
    \cup {Case(NxosCapture, <<Answer("show system resources", table)>>) :
            table \in TablesOf(NxosResourceRecords)}
    \cup {Case(ArubaCapture, <<Answer("show system", table)>>) :
            table \in TablesOf(ArubaSystemRecords)}
    \cup {Case(text, <<Answer("display cpu-usage", table)>>) :
            text \in HuaweiCaptures, table \in TablesOf(HuaweiCpuRecords)}
    \cup {Case(text, <<Answer("display memory usage", table)>>) :
            text \in HuaweiCaptures, table \in TablesOf(HuaweiMemoryRecords)}
    \cup {Case(text, <<Answer("display cpu-usage", VList(<<cpu>>)),
                       Answer("display memory usage", VList(<<mem>>))>>) :
            text \in HuaweiCaptures,
            cpu \in {Rec(<<Item("cpu_usage", S(<<"8">>))>>), Rec(<<Item("cpu_usage", S(<<"n","/","a">>))>>)},
            mem \in {Rec(<<Item("total_memory", S(<<"1","0","0","0">>)), Item("used_memory", S(<<"2","5","0">>))>>),
                     Rec(<<Item("total_memory", S(<<"x">>))>>)}}
    \cup {Case(text, <<>>) : text \in HuaweiCaptures \cup {NxosCapture, ArubaCapture}}

\* what parse_output does for a command in a case
OutcomeIn(given, command) ==
    IF \E i \in DOMAIN given : given[i].command = command
    THEN [raised |-> FALSE,
          table |-> given[CHOOSE i \in DOMAIN given : given[i].command = command].table]
    ELSE [raised |-> TRUE]

\* lines 250-253 run to the end of the loop, from the i-th template on
RECURSIVE ExtractFrom(_, _, _, _)
ExtractFrom(templates, given, i, data) ==
    IF i > Len(templates) THEN data
    ELSE ExtractFrom(templates, given, i + 1,
             StoreParsed(data, templates[i].command,
                         parse_command(OutcomeIn(given, templates[i].command)).val))

\* what parse_output was asked and answered, in the order of the loop
EngineLog(templates, given) ==
    [i \in DOMAIN templates |->
        [command |-> templates[i].command,
         outcome |-> OutcomeIn(given, templates[i].command)]]

InitHeuristics ==
    \E c \in HeuristicCases :
        /\ file_content = c.text
        /\ filename = <<"a",".","t","x","t">>
        /\ pc = "heuristics"
        /\ device_platform = detect_platform(c.text)
        /\ engine = EngineLog(TemplatesFor(detect_platform(c.text)), c.given)
        /\ parsed_data_for_file =
               ExtractFrom(TemplatesFor(detect_platform(c.text)), c.given, 1, VDict(<<>>))
        /\ device_specific_cpu_mem_data = DefaultCpuMem
        /\ ret = VNone
        /\ exc = "none"
        /\ before = <<>>
        /\ OutsideRequest

NextHeuristics ==
    \/ CpuMemHeuristics
    \/ Deduplicate
    \/ AttachAndReturn

SpecHeuristics == InitHeuristics /\ [][NextHeuristics]_vars

----------------------------------------------------------------------------
(* parse_network_file as a function of its locals *)

\* the one element of a set that has one: a value computed once under a name
The(set) == CHOOSE x \in set : TRUE

\* TEXTFSM_TEMPLATES.get(device_platform, {}) on the table the process holds
TemplatesIn(table, platform) ==
    IF \E i \in DOMAIN table : table[i].platform = platform
    THEN table[CHOOSE i \in DOMAIN table : table[i].platform = platform].templates
    ELSE <<>>

\* TEXTFSM_TEMPLATES.setdefault(device_platform, {}): a platform without an
\* entry gets an empty one
TableAfterSetdefault(table, platform) ==
    IF \E i \in DOMAIN table : table[i].platform = platform
    THEN table
    ELSE Append(table, [platform |-> platform, templates |-> <<>>])

\* TEXTFSM_TEMPLATES after line 239: .get() leaves the table as it is
TableAfterLookup(table, platform) == table

\* the locals of a call that has just been entered; given is what the engine
\* will answer for this capture, asked the number of commands already parsed
Entered(text, name, given) ==
    [file_content |-> text, filename |-> name, given |-> given, pc |-> "call",
     device_platform |-> <<>>, parsed_data_for_file |-> VNone,
     device_specific_cpu_mem_data |-> VNone, asked |-> 0,
     ret |-> VNone, exc |-> "none"]

\* lines 231-247
DetectedAndLookedUp(l, patterns, table) ==
    LET platform == DetectFromIn(patterns, 1, l.file_content)
        none == TemplatesIn(table, platform) = <<>>
    IN  [l EXCEPT !.device_platform = platform,
                  !.parsed_data_for_file = VDict(<<>>),
                  !.device_specific_cpu_mem_data = DefaultCpuMem,
                  !.ret = IF none THEN ErrorDocument(platform, l.filename) ELSE @,
                  !.pc = IF none THEN "returned" ELSE "extract"]

\* lines 250-253: one turn of the loop, over the live entry of the table
ParsedOneCommand(l, table) ==
    LET templates == TemplatesIn(table, l.device_platform)
    IN  IF l.asked >= Len(templates)
        THEN [l EXCEPT !.pc = "heuristics"]
        ELSE LET command == templates[l.asked + 1].command
                 parsed_output == parse_command(OutcomeIn(l.given, command))
             IN  [l EXCEPT !.parsed_data_for_file =
                               StoreParsed(@, command, parsed_output.val),
                           !.asked = @ + 1,
                           !.pc = IF l.asked + 1 >= Len(templates)
                                  THEN "heuristics" ELSE "extract"]

\* lines 255-300
Branched(l) ==
    The({ IF r.exc # "none"
          THEN [l EXCEPT !.exc = r.exc, !.pc = "raised"]
          ELSE [l EXCEPT !.parsed_data_for_file = r.data,
                         !.device_specific_cpu_mem_data = r.summary,
                         !.pc = "dedup"] :
            r \in {CpuMemBranch(l.device_platform, l.file_content,
                                l.parsed_data_for_file,
                                l.device_specific_cpu_mem_data)} })

\* line 303
Deduplicated(l) ==
    The({ IF r.exc # "none"
          THEN [l EXCEPT !.exc = r.exc, !.pc = "raised"]
          ELSE [l EXCEPT !.parsed_data_for_file = r.val, !.pc = "attach"] :
            r \in {deduplicate_serial_and_hardware(l.parsed_data_for_file)} })

\* lines 304-310
Attached(l) ==
    LET data == Put(l.parsed_data_for_file, "Calculated_CPU_Memory",
                    l.device_specific_cpu_mem_data)
    IN  [l EXCEPT !.parsed_data_for_file = data,
                  !.ret = Document(l.device_platform, data, l.filename),
                  !.pc = "returned"]

Ended(l) == l.pc \in {"returned", "raised"}

\* the next statement group of the call
StepOfCall(l, patterns, table) ==
    CASE l.pc = "call"       -> DetectedAndLookedUp(l, patterns, table)
      [] l.pc = "extract"    -> ParsedOneCommand(l, table)
      [] l.pc = "heuristics" -> Branched(l)
      [] l.pc = "dedup"      -> Deduplicated(l)
      [] l.pc = "attach"     -> Attached(l)

\* the locals when the call has ended, from the locals l on
RECURSIVE RunToEnd(_, _, _)
RunToEnd(l, patterns, table) ==
    IF Ended(l) THEN l
    ELSE The({RunToEnd(next, patterns, table) :
                next \in {StepOfCall(l, patterns, table)}})

\* parse_network_file(file_content, filename) run alone from entry to exit,
\* with the module tables as declared: the document returned or the
\* exception that leaves the call
parse_network_file(text, name, given) ==
    The({ IF l.pc = "raised" THEN Raised(l.exc) ELSE Returned(l.ret) :
            l \in {RunToEnd(entry, ENV_PATTERNS, TEXTFSM_TEMPLATES) :
                      entry \in {Entered(text, name, given)}} })

----------------------------------------------------------------------------
(* upload_files: one request over a batch of uploads *)

MaxFiles == 3

ALLOWED_EXTENSIONS == { <<".","t","x","t">>, <<".","l","o","g">> }

\* the last index of c in p, 0 when there is none
LastIndexOf(p, c) ==
    IF \E i \in DOMAIN p : p[i] = c
    THEN CHOOSE i \in DOMAIN p : p[i] = c /\ \A j \in (i + 1)..Len(p) : p[j] # c
    ELSE 0

\* os.path.splitext(p)[1]: from the last dot of the base name on, when a
\* character other than a dot comes before it in the base name
splitext_1(p) ==
    LET sepIndex == LastIndexOf(p, "/")
        dotIndex == LastIndexOf(p, ".")
    IN  IF /\ dotIndex > sepIndex
           /\ \E k \in (sepIndex + 1)..(dotIndex - 1) : p[k] # "."
        THEN SubSeq(p, dotIndex, Len(p))
        ELSE <<>>

\* os.path.splitext(uploaded_file.filename)[1].lower()
file_extension(name) == Fold(splitext_1(name), TRUE)

\* An upload: its name, its bytes as text, whether the saved file can be
\* read back, and what the engine answers for its commands
Upload(name, text, readable, given) ==
    [filename |-> name, content |-> text, readable |-> readable, given |-> given]

Uploads == {
    Upload(<<"s","w","1",".","t","x","t">>, ArubaCapture, TRUE,
           <<Answer("show system",
                    VList(<<Rec(<<Item("cpu", S(<<"7">>)),
                                  Item("memory_usage_percent", S(<<"4","2">>))>>)>>))>>),
    \* the engine fails for every command
    Upload(<<"c","o","r","e",".","L","O","G">>, <<"H","u","a","w","e","i"," ","V","e","r","s","a","t","i","l","e"," ","R","o","u","t","i","n","g"," ","P","l","a","t","f","o","r","m"," ","S","o","f","t","w","a","r","e","\n","<","s","w","1",">","d","i","s","p","l","a","y"," ","v","e","r","s","i","o","n","\n">>,
           TRUE, <<>>),
    \* the CPU heuristic raises IndexError
    Upload(<<"r","1",".","t","x","t">>, CpuHistoryTruncated, TRUE, <<>>),
    \* the deduplicator raises TypeError
    Upload(<<"n","1",".","l","o","g">>, NxosCapture, TRUE,
           <<Answer("show inventory",
                    VList(<<Rec(<<Item("name", S(<<"C","h","a","s","s","i","s">>)),
                                  Item("Hardware",
                                       VList(<<VList(<<S(<<"C","9","3","0","0">>)>>)>>))>>)>>))>>),
    Upload(<<"n","o","t","e","s",".","c","f","g">>, ArubaCapture, TRUE, <<>>),
    Upload(<<".","t","x","t">>, ArubaCapture, TRUE, <<>>),
    Upload(<<"x",".","t","x","t">>, <<"h","e","l","l","o"," ","w","o","r","l","d">>, TRUE, <<>>),
    Upload(<<"g","o","n","e",".","t","x","t">>, ArubaCapture, FALSE, <<>>) }

Batches ==
    UNION { [1..n -> Uploads] : n \in 0..MaxFiles }

\* no single call is being followed step by step
NoSingleCall ==
    /\ file_content = <<>>
    /\ filename = <<>>
    /\ pc = "idle"
    /\ device_platform = <<>>
    /\ parsed_data_for_file = VNone
    /\ device_specific_cpu_mem_data = VNone
    /\ engine = <<>>
    /\ ret = VNone
    /\ exc = "none"
    /\ before = <<>>

InitUpload ==
    /\ files \in Batches
    /\ position = 0
    /\ parsed_results = <<>>
    /\ db = <<>>
    /\ response = [status |-> "pending"]
    /\ calls = <<>>
    /\ env_patterns = ENV_PATTERNS
    /\ textfsm_templates = TEXTFSM_TEMPLATES
    /\ NoSingleCall

\* the row of lines 72-78
ParseResult(upload, parsed_data) ==
    [filename |-> upload.filename,
     platform |-> Get(parsed_data, "platform"),
     parsed_data |-> Get(parsed_data, "data")]

\* the for loop is at an upload
InLoop ==
    /\ response.status = "pending"
    /\ position < Len(files)

Supported(upload) == file_extension(upload.filename) \in ALLOWED_EXTENSIONS

\* lines 37-41
RejectNoFiles ==
    /\ response.status = "pending"
    /\ files = <<>>
    /\ response' = [status |-> "raised", exc |-> "HTTPException 400"]
    /\ UNCHANGED <<files, position, parsed_results, db, callVars, processVars>>

\* lines 50-54
SkipUnsupported ==
    /\ InLoop
    /\ ~Supported(files[position + 1])
    /\ position' = position + 1
    /\ UNCHANGED <<files, parsed_results, db, response, callVars, processVars>>

\* lines 56-66: the saved file cannot be read back
SkipUnreadable ==
    /\ InLoop
    /\ Supported(files[position + 1])
    /\ ~files[position + 1].readable
    /\ position' = position + 1
    /\ UNCHANGED <<files, parsed_results, db, response, callVars, processVars>>

\* lines 69-84: the document is returned, committed and appended
ParseAndSave ==
    /\ InLoop
    /\ Supported(files[position + 1])
    /\ files[position + 1].readable
    /\ \E uploaded_file \in {files[position + 1]} :
       \E parsed_data \in {parse_network_file(uploaded_file.content,
                                              uploaded_file.filename,
                                              uploaded_file.given)} :
           /\ parsed_data.exc = "none"
           /\ db' = Append(db, ParseResult(uploaded_file, parsed_data.val))
           /\ parsed_results' =
                 Append(parsed_results, ParseResult(uploaded_file, parsed_data.val))
    /\ position' = position + 1
    /\ UNCHANGED <<files, response, callVars, processVars>>

\* line 69: parse_network_file raises and nothing in upload_files catches it
ParseRaises ==
    /\ InLoop
    /\ Supported(files[position + 1])
    /\ files[position + 1].readable
    /\ \E uploaded_file \in {files[position + 1]} :
       \E parsed_data \in {parse_network_file(uploaded_file.content,
                                              uploaded_file.filename,
                                              uploaded_file.given)} :
           /\ parsed_data.exc # "none"
           /\ response' = [status |-> "raised", exc |-> parsed_data.exc]
    /\ UNCHANGED <<files, position, parsed_results, db, callVars, processVars>>

\* line 86
ReturnResults ==
    /\ response.status = "pending"
    /\ files # <<>>
    /\ position = Len(files)
    /\ response' = [status |-> "returned", body |-> parsed_results]
    /\ UNCHANGED <<files, position, parsed_results, db, callVars, processVars>>

NextUpload ==
    \/ RejectNoFiles
    \/ SkipUnsupported
    \/ SkipUnreadable
    \/ ParseAndSave
    \/ ParseRaises
    \/ ReturnResults

SpecUpload == InitUpload /\ [][NextUpload]_vars

----------------------------------------------------------------------------
(* Calls of parse_network_file running together in one process *)

MaxCalls == 2

Case3(text, name, given) == [text |-> text, name |-> name, given |-> given]

\* what a call is given: the capture, the file name, the engine's answers
CallCases == {
    Case3(<<"h","e","l","l","o"," ","w","o","r","l","d">>, <<"x",".","t","x","t">>, <<>>),
    Case3(ArubaCapture, <<"s","w","1",".","t","x","t">>,
          <<Answer("show system",
                   VList(<<Rec(<<Item("cpu", S(<<"7">>)),
                                 Item("memory_usage_percent", S(<<"4","2">>))>>)>>))>>),
    \* the same capture under another name, the engine failing
    Case3(ArubaCapture, <<"s","w","2",".","t","x","t">>, <<>>),
    \* the CPU heuristic raises
    Case3(CpuHistoryTruncated, <<"r","1",".","t","x","t">>, <<>>),
    Case3(<<"H","u","a","w","e","i"," ","Y","u","n","S","h","a","n"," ","O","S","\n","<","s","w","1",">","d","i","s","p","l","a","y"," ","v","e","r","s","i","o","n","\n">>, <<"c","o","r","e",".","l","o","g">>,
          <<Answer("display cpu-usage",
                   VList(<<Rec(<<Item("cpu_usage_rate", S(<<"1","2",".","5">>))>>)>>)),
            Answer("display memory usage",
                   VList(<<Rec(<<Item("total_memory", S(<<"1","0","0","0">>)),
                                 Item("used_memory", S(<<"2","5","0">>))>>)>>)),
            Answer("display device",
                   VList(<<Rec(<<Item("serial",
                                      VList(<<S(<<"A","1">>), S(<<"A","1">>)>>))>>)>>))>>) }

\* no request of upload_files is running
NoRequest ==
    /\ files = <<>>
    /\ position = 0
    /\ parsed_results = <<>>
    /\ db = <<>>
    /\ response = [status |-> "none"]

InitCalls ==
    /\ \E n \in 1..MaxCalls : \E picks \in [1..n -> CallCases] :
          calls = [c \in 1..n |-> Entered(picks[c].text, picks[c].name, picks[c].given)]
    /\ env_patterns = ENV_PATTERNS
    /\ textfsm_templates = TEXTFSM_TEMPLATES
    /\ NoRequest
    /\ NoSingleCall

\* lines 231-247 of one of the calls
CallDetectAndLookup ==
    /\ \E c \in DOMAIN calls :
          /\ calls[c].pc = "call"
          /\ calls' = [calls EXCEPT ![c] =
                          DetectedAndLookedUp(@, env_patterns, textfsm_templates)]
          /\ textfsm_templates' =
                 TableAfterLookup(textfsm_templates, calls'[c].device_platform)
    /\ UNCHANGED <<env_patterns, callVars, requestVars>>

\* lines 250-253 of one of the calls: one turn of its loop
CallParseCommand ==
    /\ \E c \in DOMAIN calls :
          /\ calls[c].pc = "extract"
          /\ calls' = [calls EXCEPT ![c] = ParsedOneCommand(@, textfsm_templates)]
    /\ UNCHANGED <<env_patterns, textfsm_templates, callVars, requestVars>>

\* lines 255-300 of one of the calls
CallCpuMemHeuristics ==
    /\ \E c \in DOMAIN calls :
          /\ calls[c].pc = "heuristics"
          /\ calls' = [calls EXCEPT ![c] = Branched(@)]
    /\ UNCHANGED <<env_patterns, textfsm_templates, callVars, requestVars>>

\* line 303 of one of the calls
CallDeduplicate ==
    /\ \E c \in DOMAIN calls :
          /\ calls[c].pc = "dedup"
          /\ calls' = [calls EXCEPT ![c] = Deduplicated(@)]
    /\ UNCHANGED <<env_patterns, textfsm_templates, callVars, requestVars>>

\* lines 304-310 of one of the calls
CallAttachAndReturn ==
    /\ \E c \in DOMAIN calls :
          /\ calls[c].pc = "attach"
          /\ calls' = [calls EXCEPT ![c] = Attached(@)]
    /\ UNCHANGED <<env_patterns, textfsm_templates, callVars, requestVars>>

NextCalls ==
    \/ CallDetectAndLookup
    \/ CallParseCommand
    \/ CallCpuMemHeuristics
    \/ CallDeduplicate
    \/ CallAttachAndReturn

SpecCalls == InitCalls /\ [][NextCalls]_vars

----------------------------------------------------------------------------
(* Properties of parse_network_file *)

Templates == TemplatesFor(device_platform)

ConfiguredCommands == {Templates[i].command : i \in DOMAIN Templates}

KeySet(d) == {d.kv[i].k : i \in DOMAIN d.kv}

\* what parse_output gave for the i-th command: its table, none when it raised
EngineRaised(i) == engine[i].outcome.raised

EngineTable(i) ==
    IF EngineRaised(i) THEN VList(<<>>) ELSE engine[i].outcome.table

SummaryKeys == {"cpu_max", "cpu_avg", "memory_usage_percent"}

\* the document carries, under Calculated_CPU_Memory, a summary of exactly
\* the three fields, none of them None
CarriesSummary(doc) ==
    /\ HasKey(Get(doc, "data"), "Calculated_CPU_Memory")
    /\ LET summary == Get(Get(doc, "data"), "Calculated_CPU_Memory")
       IN  /\ IsDict(summary)
           /\ Len(summary.kv) = 3
           /\ KeySet(summary) = SummaryKeys
           /\ \A i \in DOMAIN summary.kv : summary.kv[i].v.tag # "none"

\* C1: parse_network_file never raises: for every capture, every filename
\* and every outcome of the engine the call ends by returning a document.
C1_NeverRaises == exc = "none" /\ pc # "raised"

\* C2, as stated: every returned document, the one for an unknown platform
\* included, carries a summary of exactly the three populated fields.
C2_EveryDocumentCarriesSummary == pc = "returned" => CarriesSummary(ret)

\* C2, amended: a document returned for a platform with templates carries a
\* summary of exactly the three populated fields; the document returned when
\* no templates are configured carries no summary.
C2_SummaryWhenTemplates ==
    pc = "returned" =>
        IF Templates = <<>>
        THEN ~HasKey(Get(ret, "data"), "Calculated_CPU_Memory")
        ELSE CarriesSummary(ret)

C2_Witness ==
    /\ pc = "returned"
    /\ Templates # <<>>
    /\ \E i \in DOMAIN engine : EngineRaised(i)
    /\ CarriesSummary(ret)

\* C6: with no templates configured for the detected platform the call
\* returns at once, with neither the engine, the heuristics nor the
\* deduplicator run, the document {platform, filename, data: {"Error":
\* "No templates configured for <platform>"}}.
C6_ErrorDocument ==
    (pc # "call" /\ Templates = <<>>) =>
        /\ pc = "returned"
        /\ engine = <<>>
        /\ before = <<>>
        /\ parsed_data_for_file = VDict(<<>>)
        /\ KeySet(device_specific_cpu_mem_data) = SummaryKeys
        /\ \A k \in SummaryKeys : Get(device_specific_cpu_mem_data, k) = VStr(<<"N","/","A">>)
        /\ KeySet(ret) = {"platform", "data", "filename"}
        /\ Len(ret.kv) = 3
        /\ Get(ret, "platform") = VStr(device_platform)
        /\ Get(ret, "filename") = VStr(filename)
        /\ Get(ret, "data") =
              VDict(<<Item("Error",
                     VStr(<<"N","o"," ","t","e","m","p","l","a","t","e","s"," ","c","o","n","f","i","g","u","r","e","d"," ","f","o","r"," ">> \o device_platform))>>)
        /\ device_platform = P_unknown =>
              Get(Get(ret, "data"), "Error") = VStr(<<"N","o"," ","t","e","m","p","l","a","t","e","s"," ","c","o","n","f","i","g","u","r","e","d"," ","f","o","r"," ","u","n","k","n","o","w","n">>)

C6_Witness ==
    /\ pc = "returned"
    /\ device_platform = P_unknown
    /\ file_content # <<>>
    /\ HasKey(Get(ret, "data"), "Error")

C8_OnlyConfiguredCommands ==
    pc = "returned" =>
        /\ \/ KeySet(Get(ret, "data")) \subseteq ConfiguredCommands
           \/ Keys(Get(ret, "data")) = <<"Error">>
        /\ Templates # <<>> => ConfiguredCommands \subseteq KeySet(Get(ret, "data"))

\* C8, amended: the keys of the returned tables mapping are exactly the
\* configured commands of the detected platform plus the reserved key
\* Calculated_CPU_Memory, each command holding a list, or the mapping is the
\* single key "Error".
C8_CommandsAndSummaryKey ==
    pc = "returned" =>
        IF Templates = <<>>
        THEN Keys(Get(ret, "data")) = <<"Error">>
        ELSE /\ KeySet(Get(ret, "data")) =
                    ConfiguredCommands \cup {"Calculated_CPU_Memory"}
             /\ Len(Get(ret, "data").kv) = Len(Templates) + 1
             /\ \A c \in ConfiguredCommands : IsList(Get(Get(ret, "data"), c))

C8_Witness ==
    /\ pc = "returned"
    /\ Templates # <<>>
    /\ \E i \in DOMAIN engine :
          EngineRaised(i) /\ HasKey(Get(ret, "data"), engine[i].command)
    /\ "Calculated_CPU_Memory" \in KeySet(Get(ret, "data"))

----------------------------------------------------------------------------
(* Properties of detect_platform *)

DeclaredOrder ==
    <<P_huawei_vrp, P_huawei_yunshan, P_cisco_ios, P_cisco_nxos, P_aruba_aoscx>>

EntryOf(platform) ==
    ENV_PATTERNS[CHOOSE i \in DOMAIN ENV_PATTERNS : ENV_PATTERNS[i].platform = platform]

ContentMatches(platform) ==
    re_search(EntryOf(platform).platform_pattern, file_content, TRUE)

CommandMatches(platform) ==
    re_search(EntryOf(platform).required_command_pattern, file_content, TRUE)

BothMatch(platform) == ContentMatches(platform) /\ CommandMatches(platform)

HasContentMarker == \E k \in DOMAIN DeclaredOrder : ContentMatches(DeclaredOrder[k])

HasCommandKeyword == re_search({<<"s","h","o","w">>, <<"d","i","s","p","l","a","y">>}, file_content, TRUE)

HuaweiPlatforms == {P_huawei_vrp, P_huawei_yunshan}

\* C3: the detected platform is the first entry, in the order huawei_vrp,
\* huawei_yunshan, cisco_ios, cisco_nxos, aruba_aoscx, whose two patterns
\* both match the text case-insensitively, and "unknown" exactly when no
\* entry has both matching.
C3_FirstEntryMatchingBoth ==
    pc = "detected" =>
        /\ device_platform = P_unknown <=>
              \A k \in DOMAIN DeclaredOrder : ~BothMatch(DeclaredOrder[k])
        /\ device_platform # P_unknown =>
              \E k \in DOMAIN DeclaredOrder :
                  /\ device_platform = DeclaredOrder[k]
                  /\ BothMatch(DeclaredOrder[k])
                  /\ \A j \in 1..(k - 1) : ~BothMatch(DeclaredOrder[j])

C3_Witness ==
    /\ pc = "detected"
    /\ device_platform = P_cisco_ios
    /\ BothMatch(P_cisco_nxos)
    /\ BothMatch(P_aruba_aoscx)

\* C4, as stated: when the content markers of several vendors match, the
\* detected platform is the first entry in table order among those whose
\* content marker matches; with a Huawei and the Cisco IOS content marker
\* both in the text it is a Huawei platform.
C4_FirstContentMarkerWins ==
    (pc = "detected"
        /\ Cardinality({k \in DOMAIN DeclaredOrder : ContentMatches(DeclaredOrder[k])}) >= 2)
    =>  /\ device_platform =
              DeclaredOrder[KthSmallest({k \in DOMAIN DeclaredOrder :
                                            ContentMatches(DeclaredOrder[k])}, 1)]
        /\ ((\E h \in HuaweiPlatforms : ContentMatches(h)) /\ ContentMatches(P_cisco_ios))
              => device_platform \in HuaweiPlatforms

\* C4, amended: when the content markers of several vendors match, the
\* detected platform is the first entry in table order among those whose
\* content marker and command marker both match, "unknown" when there is
\* none; with a Huawei content marker, the keyword "display" and the Cisco
\* IOS content marker all in the text it is a Huawei platform.
C4_FirstOfThoseMatchingBoth ==
    (pc = "detected"
        /\ Cardinality({k \in DOMAIN DeclaredOrder : ContentMatches(DeclaredOrder[k])}) >= 2)
    =>  /\ LET both == {k \in DOMAIN DeclaredOrder : BothMatch(DeclaredOrder[k])}
           IN  device_platform =
                   IF both = {} THEN P_unknown ELSE DeclaredOrder[KthSmallest(both, 1)]
        /\ ((\E h \in HuaweiPlatforms : ContentMatches(h))
                /\ re_search({<<"d","i","s","p","l","a","y">>}, file_content, TRUE)
                /\ ContentMatches(P_cisco_ios))
              => device_platform \in HuaweiPlatforms

C4_Witness ==
    /\ pc = "detected"
    /\ ContentMatches(P_huawei_vrp)
    /\ BothMatch(P_cisco_ios)
    /\ device_platform = P_huawei_vrp

\* C5: a text with a vendor content marker but neither "show" nor "display",
\* and a text with a command keyword but no vendor content marker, both
\* detect as "unknown".
C5_BothPatternsRequired ==
    pc = "detected" =>
        /\ (HasContentMarker /\ ~HasCommandKeyword) => device_platform = P_unknown
        /\ (HasCommandKeyword /\ ~HasContentMarker) => device_platform = P_unknown

C5_Witness ==
    /\ pc = "detected"
    /\ HasContentMarker
    /\ ~HasCommandKeyword
    /\ device_platform = P_unknown

----------------------------------------------------------------------------
(* Properties of deduplicate_serial_and_hardware *)

\* the document after the first pass
AfterFirstPass == IF Len(before) = 1 THEN parsed_data_for_file ELSE before[2]

RECURSIVE ConcatAll(_)
ConcatAll(seqs) == IF seqs = <<>> THEN <<>> ELSE Head(seqs) \o ConcatAll(Tail(seqs))

\* the lists a value holds under one of the keys, at any depth, in document
\* order
RECURSIVE ListsUnder(_, _)
ListsUnder(v, keys) ==
    IF IsDict(v)
    THEN ConcatAll([i \in DOMAIN v.kv |->
                      IF v.kv[i].k \in keys /\ IsList(v.kv[i].v)
                      THEN <<v.kv[i].v.xs>>
                      ELSE ListsUnder(v.kv[i].v, keys)])
    ELSE IF IsList(v)
         THEN ConcatAll([i \in DOMAIN v.xs |-> ListsUnder(v.xs[i], keys)])
         ELSE <<>>

\* two elements are the same: records by their set of field/value pairs,
\* anything else by equality
SameElement(a, b) ==
    IF IsDict(a) /\ IsDict(b)
    THEN {<<a.kv[i].k, a.kv[i].v>> : i \in DOMAIN a.kv}
            = {<<b.kv[i].k, b.kv[i].v>> : i \in DOMAIN b.kv}
    ELSE a = b

\* the elements of xs that no earlier element is the same as, in order
FirstOccurrences(xs) ==
    LET keep == {i \in DOMAIN xs : \A j \in 1..(i - 1) : ~SameElement(xs[j], xs[i])}
    IN  [n \in 1..Cardinality(keep) |-> xs[KthSmallest(keep, n)]]

\* C9: a second run of the deduplicator on a document it has already been
\* run on changes nothing (and does not raise).
C9_Idempotent ==
    /\ Len(before) >= 1 => pc # "raised"
    /\ Len(before) >= 2 => parsed_data_for_file = before[Len(before)]

C9_Witness ==
    /\ Len(before) = 2
    /\ before[1] # before[2]
    /\ parsed_data_for_file = before[2]

\* C10: every list under a key "serial" or "hardware" is replaced by its
\* distinct elements, each once, in the order of first occurrence; records
\* are the same when they hold the same field/value pairs in any order,
\* scalars when they are equal.
C10_DistinctInFirstOccurrenceOrder ==
    Len(before) >= 1 =>
        LET input  == ListsUnder(before[1], {"serial", "hardware"})
            output == ListsUnder(AfterFirstPass, {"serial", "hardware"})
        IN  /\ Len(output) = Len(input)
            /\ \A n \in DOMAIN input :
                  /\ output[n] = FirstOccurrences(input[n])
                  /\ \A i, j \in DOMAIN output[n] :
                        i # j => ~SameElement(output[n][i], output[n][j])
                  /\ \A i \in DOMAIN input[n] : \E j \in DOMAIN output[n] :
                        SameElement(input[n][i], output[n][j])

C10_Witness ==
    /\ Len(before) >= 1
    /\ ListsUnder(before[1], {"serial", "hardware"}) =
          << <<Rec(<<Item("sn", S(<<"A","1">>))>>), Rec(<<Item("sn", S(<<"A","1">>))>>),
               Rec(<<Item("sn", S(<<"B","2">>))>>)>> >>
    /\ ListsUnder(AfterFirstPass, {"serial", "hardware"}) =
          << <<Rec(<<Item("sn", S(<<"A","1">>))>>), Rec(<<Item("sn", S(<<"B","2">>))>>)>> >>

\* the spellings of the two keys in the documents
SerialHardwareKeys ==
    {"serial", "Serial", "SERIAL", "hardware", "Hardware", "HARDWARE"}

\* C11: every list under a key that is "serial" or "hardware" in any letter
\* case, reached at any depth through mappings and lists stored under other
\* keys, is replaced by its distinct elements in first-occurrence order;
\* everything else in the document is left as it was.
C11_AnyCaseAnyDepth ==
    Len(before) >= 1 =>
        LET input  == ListsUnder(before[1], SerialHardwareKeys)
            output == ListsUnder(AfterFirstPass, SerialHardwareKeys)
        IN  /\ Len(output) = Len(input)
            /\ \A n \in DOMAIN input : output[n] = FirstOccurrences(input[n])
            /\ input = <<>> => AfterFirstPass = before[1]

C11_Witness ==
    /\ Len(before) >= 1
    /\ \E lst \in ListsOfItems :
          /\ before[1] =
                VDict(<<Item("show inventory",
                             VList(<<Rec(<<Item("slots",
                                  VList(<<Rec(<<Item("SERIAL", lst)>>)>>))>>)>>))>>)
          /\ AfterFirstPass =
                VDict(<<Item("show inventory",
                             VList(<<Rec(<<Item("slots",
                                  VList(<<Rec(<<Item("SERIAL",
                                       VList(FirstOccurrences(lst.xs)))>>)>>))>>)>>))>>)
          /\ Len(FirstOccurrences(lst.xs)) < Len(lst.xs)

----------------------------------------------------------------------------
(* Properties of the CPU/Memory heuristics *)

\* the CPU/Memory branch has run to its end
HeuristicsDone ==
    pc \in {"dedup", "attach", "returned"} /\ IsDict(device_specific_cpu_mem_data)

Summary(field) == Get(device_specific_cpu_mem_data, field)

MemoryTable == "show processes memory sorted"

\* the pieces of s between its line feeds
Pieces(s) ==
    LET nl == NewlinesOf(s)
        n  == Cardinality(nl)
        at == [k \in 1..n |-> KthSmallest(nl, k)]
    IN  [k \in 1..(n + 1) |->
            SubSeq(s, IF k = 1 THEN 1 ELSE at[k - 1] + 1,
                      IF k = n + 1 THEN Len(s) ELSE at[k] - 1)]

\* the capture holds the opening marker with the closing marker after it
HasWindow ==
    \E i \in DOMAIN file_content :
        /\ MatchAt(CISCO_CPU_START_REGEX, file_content, i)
        /\ \E j \in (i + Len(CISCO_CPU_START_REGEX))..Len(file_content) :
               MatchAt(CISCO_CPU_END_REGEX, file_content, j)

\* the pieces of the text from the first opening marker to the next closing
\* marker
WindowPieces ==
    LET i == CHOOSE i \in DOMAIN file_content :
                 /\ MatchAt(CISCO_CPU_START_REGEX, file_content, i)
                 /\ \A k \in 1..(i - 1) : ~MatchAt(CISCO_CPU_START_REGEX, file_content, k)
        from == i + Len(CISCO_CPU_START_REGEX)
        j == CHOOSE j \in from..Len(file_content) :
                 /\ MatchAt(CISCO_CPU_END_REGEX, file_content, j)
                 /\ \A k \in from..(j - 1) : ~MatchAt(CISCO_CPU_END_REGEX, file_content, k)
    IN  Pieces(SubSeq(file_content, from, j - 1))

\* the lines of pieces: a last piece that is empty is no line
LinesOf(pieces) ==
    IF pieces # <<>> /\ pieces[Len(pieces)] = <<>>
    THEN SubSeq(pieces, 1, Len(pieces) - 1)
    ELSE pieces

\* The window without its first two pieces and its last `cut` pieces, as lines
ChartLines(window, cut) == LinesOf(SubSeq(window, 3, Len(window) - cut))

\* the window is long enough for both slicings of the chart
CompleteChart(window) == Len(window) >= 16

\* the lines with a '#' among the last ten lines above the axis
AverageLines(window) ==
    LET lines == ChartLines(window, 3)
        last10 == SubSeq(lines, IF Len(lines) > 10 THEN Len(lines) - 9 ELSE 1, Len(lines))
    IN  SelectSeq(last10, HasHash)

\* the digits of the first of them
AverageDigits(window) == SelectSeq(AverageLines(window)[1], IsDigitChar)

\* C12: for Cisco IOS with the window found and an average line whose digits
\* form the integer n, cpu_avg is "1" when n < 10 and the decimal string of
\* n when n >= 10, 10 included.
C12_AverageFloor ==
    (device_platform = P_cisco_ios /\ HeuristicsDone /\ HasWindow) =>
        LET window == WindowPieces
        IN  (CompleteChart(window) /\ AverageLines(window) # <<>>
                /\ AverageDigits(window) # <<>>)
            =>  LET n == DigitsToInt(AverageDigits(window), 0)
                IN  /\ n < 10 => Summary("cpu_avg") = VStr(<<"1">>)
                    /\ n >= 10 => Summary("cpu_avg") = VStr(IntToStr(n))
                    /\ n = 10 => Summary("cpu_avg") = VStr(<<"1","0">>)

C12_Witness ==
    /\ device_platform = P_cisco_ios
    /\ pc = "returned"
    /\ HasWindow
    /\ CompleteChart(WindowPieces)
    /\ AverageLines(WindowPieces) # <<>>
    /\ AverageDigits(WindowPieces) = <<"1","0">>
    /\ Get(Get(Get(ret, "data"), "Calculated_CPU_Memory"), "cpu_avg") = VStr(<<"1","0">>)

\* the table the engine answered for a command, empty when it raised
EngineAnswer(command) ==
    EngineTable(CHOOSE i \in DOMAIN engine : engine[i].command = command)

\* the engine answered a table whose first record holds something
HasEngineRecord(command) ==
    /\ \E i \in DOMAIN engine : engine[i].command = command
    /\ EngineAnswer(command).xs # <<>>
    /\ IsDict(EngineAnswer(command).xs[1])
    /\ EngineAnswer(command).xs[1].kv # <<>>

EngineRecord(command) == EngineAnswer(command).xs[1]

\* used/total*100 to two decimals, in hundredths: the nearest hundredth of
\* the exact quotient, the even one of two equally near
NearestHundredth(used, total) ==
    LET num == IF total < 0 THEN -(10000 * used) ELSE 10000 * used
        den == IF total < 0 THEN -total ELSE total
        q   == num \div den
        Twice(h) == IF h * den >= num THEN 2 * (h * den - num) ELSE 2 * (num - h * den)
    IN  CHOOSE h \in {q, q + 1} :
            /\ Twice(h) <= den
            /\ Twice(h) = den => h % 2 = 0

\* the field of a record as an integer, a missing field counting as 0
FieldAsInt(record, field) ==
    IF HasKey(record, field) THEN PyInt(Get(record, field)) ELSE Returned(0)

\* what a first memory record of Cisco IOS yields
CiscoMemoryOf(record) ==
    LET total == FieldAsInt(record, "memory_total")
        used  == FieldAsInt(record, "memory_used")
    IN  IF total.exc # "none" \/ used.exc # "none" THEN VStr(<<"N","/","A">>)
        ELSE IF total.val = 0 THEN VInt(0)
        ELSE VFloat(NearestHundredth(used.val, total.val))

\* C13: for a Cisco IOS capture without the window, cpu_max and cpu_avg are
\* each a string containing "regex failed", never "N/A", and
\* memory_usage_percent is what the memory table yields.
C13_RegexFailed ==
    (device_platform = P_cisco_ios /\ HeuristicsDone /\ ~HasWindow) =>
        /\ Summary("cpu_max") = VStr(<<"C","a","n","n","o","t"," ","f","i","n","d"," ","m","a","x"," ","C","P","U"," ","(","r","e","g","e","x"," ","f","a","i","l","e","d",")">>)
        /\ Summary("cpu_avg") = VStr(<<"C","a","n","n","o","t"," ","f","i","n","d"," ","a","v","e","r","a","g","e"," ","C","P","U"," ","(","r","e","g","e","x"," ","f","a","i","l","e","d",")">>)
        /\ \A f \in {"cpu_max", "cpu_avg"} :
              /\ re_search({<<"r","e","g","e","x"," ","f","a","i","l","e","d">>}, Summary(f).s, FALSE)
              /\ Summary(f) # VStr(<<"N","/","A">>)
        /\ Summary("memory_usage_percent") =
              IF HasEngineRecord(MemoryTable)
              THEN CiscoMemoryOf(EngineRecord(MemoryTable))
              ELSE VStr(<<"N","/","A">>)

C13_Witness ==
    /\ device_platform = P_cisco_ios
    /\ pc = "returned"
    /\ ~HasWindow
    /\ re_search({<<"l","a","s","t"," ","6","0"," ","m","i","n","u","t","e","s">>}, file_content, FALSE)
    /\ HasEngineRecord(MemoryTable)
    /\ Get(Get(Get(ret, "data"), "Calculated_CPU_Memory"), "memory_usage_percent")
          = VFloat(2500)
    /\ Get(Get(Get(ret, "data"), "Calculated_CPU_Memory"), "cpu_max")
          = VStr(<<"C","a","n","n","o","t"," ","f","i","n","d"," ","m","a","x"," ","C","P","U"," ","(","r","e","g","e","x"," ","f","a","i","l","e","d",")">>)

\* the characters of a raster row past its four-character margin
Cells(row) == SubSeq(row, 5, Len(row))

\* the columns the two rows share
SharedColumns(row1, row2) ==
    1..(IF Len(Cells(row1)) <= Len(Cells(row2)) THEN Len(Cells(row1)) ELSE Len(Cells(row2)))

NoNumericMax == <<"N","o"," ","n","u","m","e","r","i","c"," ","C","P","U"," ","m","a","x"," ","f","o","u","n","d">>

MaxAsText(values) ==
    IF values = {} THEN NoNumericMax
    ELSE IntToStr(CHOOSE m \in values : \A v \in values : v <= m)

\* the numbers of the columns whose two characters are both digits
DigitPairValues(row1, row2) ==
    {10 * DigitValue(Cells(row1)[k]) + DigitValue(Cells(row2)[k]) :
        k \in {c \in SharedColumns(row1, row2) :
                  IsDigitChar(Cells(row1)[c]) /\ IsDigitChar(Cells(row2)[c])}}

\* the numbers of the columns with one digit beside a blank
LoneDigitValues(row1, row2) ==
    {DigitValue(Cells(row2)[k]) :
        k \in {c \in SharedColumns(row1, row2) :
                  IsSpace(Cells(row1)[c]) /\ IsDigitChar(Cells(row2)[c])}}
    \cup {DigitValue(Cells(row1)[k]) :
        k \in {c \in SharedColumns(row1, row2) :
                  IsDigitChar(Cells(row1)[c]) /\ IsSpace(Cells(row2)[c])}}

\* the digits of the ones row, when the tens row has no cell at all
OnesRowValues(row2) ==
    {DigitValue(Cells(row2)[k]) :
        k \in {c \in DOMAIN Cells(row2) : IsDigitChar(Cells(row2)[c])}}

ColumnValues(row1, row2) ==
    IF Cells(row1) = <<>> THEN OnesRowValues(row2)
    ELSE DigitPairValues(row1, row2) \cup LoneDigitValues(row1, row2)

\* C14, as stated: cpu_max is the maximum over the chart columns of the
\* integer read from the column's row-1 character followed by its row-2
\* character, counting only the columns where that pair is all digits, and
\* "No numeric CPU max found" when no column counts.
C14_MaxOfDigitPairs ==
    (device_platform = P_cisco_ios /\ HeuristicsDone /\ HasWindow) =>
        LET window == WindowPieces
            lines  == ChartLines(window, 13)
        IN  (CompleteChart(window) /\ Len(lines) >= 2) =>
                Summary("cpu_max") =
                    VStr(MaxAsText(DigitPairValues(lines[Len(lines) - 1], lines[Len(lines)])))

\* C14, amended: the columns start after a four-character margin and end
\* with the shorter row; the two characters of a column are joined and
\* trimmed, so a digit beside a blank counts as that digit alone; when row 1
\* has no character past the margin every digit of row 2 is a value by
\* itself; cpu_max is the decimal string of the largest value and
\* "No numeric CPU max found" when there is none.
C14_MaxOfTrimmedColumns ==
    (device_platform = P_cisco_ios /\ HeuristicsDone /\ HasWindow) =>
        LET window == WindowPieces
            lines  == ChartLines(window, 13)
        IN  (CompleteChart(window) /\ Len(lines) >= 2) =>
                Summary("cpu_max") =
                    VStr(MaxAsText(ColumnValues(lines[Len(lines) - 1], lines[Len(lines)])))

C14_Witness ==
    /\ device_platform = P_cisco_ios
    /\ pc = "returned"
    /\ HasWindow
    /\ CompleteChart(WindowPieces)
    /\ ChartLines(WindowPieces, 13) = << <<>>, <<" "," "," "," "," ","1"," "," ">>, <<" "," "," "," ","5","3","7","3">> >>
    /\ Get(Get(Get(ret, "data"), "Calculated_CPU_Memory"), "cpu_max") = VStr(<<"1","3">>)

\* the field is in the record and int() accepts it
HoldsInteger(record, field) ==
    HasKey(record, field) /\ PyInt(Get(record, field)).exc = "none"

\* the field is in the record and int() refuses it
HoldsNoInteger(record, field) ==
    HasKey(record, field) /\ PyInt(Get(record, field)).exc # "none"

IntegerIn(record, field) == PyInt(Get(record, field)).val

\* C15: for Cisco IOS with a non-empty first memory record holding integer
\* memory_used and memory_total, memory_usage_percent is
\* round(used/total*100, 2) when total is not 0 (1000 and 250 give 25.0);
\* it is 0 when memory_total is 0 or absent from the record.
C15_CiscoMemoryPercent ==
    (device_platform = P_cisco_ios /\ HeuristicsDone /\ HasEngineRecord(MemoryTable)) =>
        LET record == EngineRecord(MemoryTable)
        IN  HoldsInteger(record, "memory_used") =>
              /\ (HoldsInteger(record, "memory_total")
                     /\ IntegerIn(record, "memory_total") # 0)
                 => Summary("memory_usage_percent") =
                       VFloat(NearestHundredth(IntegerIn(record, "memory_used"),
                                               IntegerIn(record, "memory_total")))
              /\ (IntegerIn(record, "memory_used") = 250
                     /\ HoldsInteger(record, "memory_total")
                     /\ IntegerIn(record, "memory_total") = 1000)
                 => Summary("memory_usage_percent") = VFloat(2500)
              /\ (HoldsInteger(record, "memory_total")
                     /\ IntegerIn(record, "memory_total") = 0)
                 => Summary("memory_usage_percent") = VInt(0)
              /\ ~HasKey(record, "memory_total")
                 => Summary("memory_usage_percent") = VInt(0)

C15_Witness ==
    /\ device_platform = P_cisco_ios
    /\ pc = "returned"
    /\ HasEngineRecord(MemoryTable)
    /\ EngineRecord(MemoryTable) =
          Rec(<<Item("memory_total", S(<<"0">>)), Item("memory_used", S(<<"2","5","0">>))>>)
    /\ Get(Get(Get(ret, "data"), "Calculated_CPU_Memory"), "memory_usage_percent")
          = VInt(0)

\* a field of what extract_cisco_cpu_usage computes from the capture
FromRawText(field) == Get(extract_cisco_cpu_usage(file_content).val, field)

\* memory_total or memory_used is in the record and int() refuses it
SomeFieldUnparseable(record) ==
    HoldsNoInteger(record, "memory_total") \/ HoldsNoInteger(record, "memory_used")

SomeFieldMissing(record) ==
    ~HasKey(record, "memory_total") \/ ~HasKey(record, "memory_used")

\* C16 (as written): for Cisco IOS, when memory_total or memory_used of the
\* first memory record is missing or is no integer, memory_usage_percent is
\* "N/A" and cpu_max and cpu_avg keep the values computed from the raw text.
C16_MissingOrUnparseable ==
    (device_platform = P_cisco_ios /\ HeuristicsDone /\ HasEngineRecord(MemoryTable)) =>
        LET record == EngineRecord(MemoryTable)
        IN  (SomeFieldMissing(record) \/ SomeFieldUnparseable(record)) =>
                /\ Summary("memory_usage_percent") = NA
                /\ Summary("cpu_max") = FromRawText("cpu_max")
                /\ Summary("cpu_avg") = FromRawText("cpu_avg")

\* C16 (amended): for Cisco IOS, when memory_total or memory_used of the
\* first memory record is present and is no integer, memory_usage_percent is
\* "N/A"; a missing field counts as 0, so a record without memory_total gives
\* 0 and a record without memory_used gives 0.0 over a non-zero total; in
\* every case cpu_max and cpu_avg keep the values computed from the raw text.
C16_UnparseableIsNA ==
    (device_platform = P_cisco_ios /\ HeuristicsDone /\ HasEngineRecord(MemoryTable)) =>
        LET record == EngineRecord(MemoryTable)
        IN  /\ SomeFieldUnparseable(record) => Summary("memory_usage_percent") = NA
            /\ (SomeFieldMissing(record) /\ ~SomeFieldUnparseable(record)) =>
                  Summary("memory_usage_percent") =
                     IF ~HasKey(record, "memory_total")
                            \/ IntegerIn(record, "memory_total") = 0
                     THEN VInt(0)
                     ELSE VFloat(0)
            /\ Summary("cpu_max") = FromRawText("cpu_max")
            /\ Summary("cpu_avg") = FromRawText("cpu_avg")

C16_Witness ==
    /\ device_platform = P_cisco_ios
    /\ pc = "returned"
    /\ file_content = CpuHistoryChart
    /\ HasEngineRecord(MemoryTable)
    /\ EngineRecord(MemoryTable) =
          Rec(<<Item("memory_total", S(<<"1","2",".","5">>)), Item("memory_used", S(<<"2","5","0">>))>>)
    /\ Get(Get(ret, "data"), "Calculated_CPU_Memory") =
          VDict(<<Item("cpu_max", Get(extract_cisco_cpu_usage(CpuHistoryChart).val, "cpu_max")),
                  Item("cpu_avg", Get(extract_cisco_cpu_usage(CpuHistoryChart).val, "cpu_avg")),
                  Item("memory_usage_percent", NA)>>)
    /\ Get(extract_cisco_cpu_usage(CpuHistoryChart).val, "cpu_max") # NA

HuaweiMemoryTable == "display memory usage"
HuaweiCpuTable == "display cpu-usage"

\* the value under the first name, under the second name when the record
\* has no key of the first name, Absent when it has neither
WithFallback(record, first, second) ==
    IF HasKey(record, first) THEN Get(record, first)
    ELSE IF HasKey(record, second) THEN Get(record, second)
    ELSE Absent

IsInteger(v) == v # Absent /\ PyInt(v).exc = "none"

\* C17: for both Huawei platforms, memory is read from the first 'display
\* memory usage' record as total_memory/used_memory, each falling back to
\* memory_total/memory_used when its key is absent; memory_usage_percent is
\* round(used/total*100, 2) only when total > 0 ("1000" and "250" give 25.0)
\* and stays "N/A" when total is 0, negative, absent or non-numeric.
C17_HuaweiMemory ==
    (device_platform \in HuaweiPlatforms /\ HeuristicsDone
        /\ HasEngineRecord(HuaweiMemoryTable)) =>
        LET record == EngineRecord(HuaweiMemoryTable)
            total  == WithFallback(record, "total_memory", "memory_total")
            used   == WithFallback(record, "used_memory", "memory_used")
        IN  /\ Summary("memory_usage_percent") # NA =>
                  /\ IsInteger(total) /\ PyInt(total).val > 0
                  /\ used = Absent \/ IsInteger(used)
                  /\ Summary("memory_usage_percent") =
                        VFloat(NearestHundredth(
                                 IF used = Absent THEN 0 ELSE PyInt(used).val,
                                 PyInt(total).val))
            /\ (IsInteger(total) /\ PyInt(total).val > 0 /\ IsInteger(used)) =>
                  Summary("memory_usage_percent") # NA
            /\ (total = S(<<"1","0","0","0">>) /\ used = S(<<"2","5","0">>)) =>
                  Summary("memory_usage_percent") = VFloat(2500)
            /\ (~IsInteger(total) \/ PyInt(total).val <= 0) =>
                  Summary("memory_usage_percent") = NA

\* total_memory is absent and memory_total is used; used_memory is present
C17_Witness ==
    /\ device_platform = P_huawei_yunshan
    /\ pc = "returned"
    /\ HasEngineRecord(HuaweiMemoryTable)
    /\ EngineRecord(HuaweiMemoryTable) =
          Rec(<<Item("memory_total", S(<<"2","0","0","0">>)), Item("used_memory", S(<<"2","5","0">>))>>)
    /\ Get(Get(Get(ret, "data"), "Calculated_CPU_Memory"), "memory_usage_percent")
          = VFloat(1250)

ProbeOrder == <<"cpu_usage_rate", "cpu_usage_average", "cpu_usage">>

\* digits with at most one decimal point, and at least one digit
IsNumericText(s) ==
    /\ \A i \in DOMAIN s : IsDigitChar(s[i]) \/ s[i] = "."
    /\ Cardinality({i \in DOMAIN s : s[i] = "."}) <= 1
    /\ \E i \in DOMAIN s : IsDigitChar(s[i])

\* the decimal string of the integer part of a numeric text
IntegerPart(s) ==
    LET dots  == {i \in DOMAIN s : s[i] = "."}
        whole == IF dots = {} THEN s
                 ELSE SubSeq(s, 1, (CHOOSE i \in dots : TRUE) - 1)
    IN  IntToStr(DigitsToInt(whole, 0))

Qualifies(record, key) ==
    HasKey(record, key) /\ IsNumericText(PyStr(Get(record, key)))

\* C18: for Huawei platforms, the CPU reading comes from the first 'display
\* cpu-usage' record by probing cpu_usage_rate, cpu_usage_average, cpu_usage:
\* it is the integer truncation of the first key, in that order, that is
\* present with a numeric value (digits with at most one decimal point); a
\* present non-numeric earlier key is skipped; if none qualifies the field
\* stays "N/A".
C18_HuaweiCpuProbeOrder ==
    (device_platform \in HuaweiPlatforms /\ HeuristicsDone
        /\ HasEngineRecord(HuaweiCpuTable)) =>
        LET record == EngineRecord(HuaweiCpuTable)
        IN  /\ \A i \in DOMAIN ProbeOrder :
                  (/\ Qualifies(record, ProbeOrder[i])
                   /\ \A j \in 1..(i - 1) : ~Qualifies(record, ProbeOrder[j]))
                  => Summary("cpu_avg") =
                        VStr(IntegerPart(PyStr(Get(record, ProbeOrder[i]))))
            /\ (\A i \in DOMAIN ProbeOrder : ~Qualifies(record, ProbeOrder[i]))
                  => Summary("cpu_avg") = NA

\* cpu_usage_rate is present and not numeric, cpu_usage_average is used
C18_Witness ==
    /\ device_platform \in HuaweiPlatforms
    /\ pc = "returned"
    /\ HasEngineRecord(HuaweiCpuTable)
    /\ EngineRecord(HuaweiCpuTable) =
          Rec(<<Item("cpu_usage", S(<<"8">>)), Item("cpu_usage_average", S(<<"1","2",".","5">>)),
                Item("cpu_usage_rate", S(<<"n","/","a">>))>>)
    /\ Get(Get(Get(ret, "data"), "Calculated_CPU_Memory"), "cpu_avg") = S(<<"1","2">>)

ArubaTable == "show system"
NxosTable == "show system resources"

\* s without the whitespace before its first and after its last other character
Trimmed(s) ==
    LET inked == {i \in DOMAIN s : ~IsSpace(s[i])}
    IN  IF inked = {} THEN <<>>
        ELSE SubSeq(s, CHOOSE i \in inked : \A j \in inked : i <= j,
                       CHOOSE i \in inked : \A j \in inked : i >= j)

AllDigits(s) == s # <<>> /\ \A i \in DOMAIN s : IsDigitChar(s[i])

\* the summary field of an Aruba value: its trimmed text when that is all
\* digits, "N/A" otherwise or when the record has no such field
Accepted(record, field) ==
    IF HasKey(record, field) /\ AllDigits(Trimmed(PyStr(Get(record, field))))
    THEN VStr(Trimmed(PyStr(Get(record, field))))
    ELSE VStr(<<"N","/","A">>)

Reported(field) ==
    IF HasEngineRecord(NxosTable) /\ HasKey(EngineRecord(NxosTable), field)
    THEN VStr(PyStr(Get(EngineRecord(NxosTable), field)))
    ELSE VStr(<<"N","/","A">>)

\* C20: for cisco_nxos, cpu_max and cpu_avg are always equal: both are the
\* cpu_usage_percent of the first 'show system resources' record when that
\* field is present, and memory_usage_percent is that record's
\* memory_usage_percent; a field whose source field is absent, or whose
\* table is empty, stays "N/A".
C20_NxosDirectFields ==
    (device_platform = P_cisco_nxos /\ HeuristicsDone) =>
        /\ Summary("cpu_max") = Summary("cpu_avg")
        /\ Summary("cpu_avg") = Reported("cpu_usage_percent")
        /\ Summary("memory_usage_percent") = Reported("memory_usage_percent")

\* cpu_usage_percent present, memory_usage_percent absent
C20_Witness ==
    /\ device_platform = P_cisco_nxos
    /\ pc = "returned"
    /\ HasEngineRecord(NxosTable)
    /\ EngineRecord(NxosTable) =
          Rec(<<Item("load_avg", S(<<"0",".","5">>)), Item("cpu_usage_percent", VInt(12))>>)
    /\ Get(Get(ret, "data"), "Calculated_CPU_Memory") =
          VDict(<<Item("cpu_max", S(<<"1","2">>)), Item("cpu_avg", S(<<"1","2">>)),
                  Item("memory_usage_percent", S(<<"N","/","A">>))>>)

----------------------------------------------------------------------------
(* The returned document *)

\* a document with command tables has been returned
ReturnedWithTables ==
    /\ pc = "returned"
    /\ HasKey(Get(ret, "data"), "Calculated_CPU_Memory")

ReturnedTable(command) == Get(Get(ret, "data"), command)

ReturnedSummary == Get(Get(ret, "data"), "Calculated_CPU_Memory")

\* the tables a heuristic reads a first record from, with the platforms it
\* does so for and the summary fields it computes from that record
Enrichments == {
    [platforms |-> {P_cisco_ios}, command |-> MemoryTable,
     fields |-> {"memory_usage_percent"}],
    [platforms |-> {P_aruba_aoscx}, command |-> ArubaTable,
     fields |-> {"cpu_max", "cpu_avg", "memory_usage_percent"}],
    [platforms |-> HuaweiPlatforms, command |-> HuaweiCpuTable,
     fields |-> {"cpu_avg"}],
    [platforms |-> HuaweiPlatforms, command |-> HuaweiMemoryTable,
     fields |-> {"memory_usage_percent"}] }

\* C21: in the returned document, whenever a heuristic computed fields from
\* the first record of a table (Cisco IOS memory, Aruba 'show system', Huawei
\* 'display cpu-usage' and 'display memory usage'), that first record holds
\* those fields with the values of the same fields of Calculated_CPU_Memory.
C21_EnrichmentMatchesSummary ==
    ReturnedWithTables =>
        \A e \in Enrichments :
            (device_platform \in e.platforms /\ HasEngineRecord(e.command)) =>
                LET record == ReturnedTable(e.command).xs[1]
                IN  \A field \in e.fields :
                        /\ HasKey(record, field)
                        /\ Get(record, field) = Get(ReturnedSummary, field)

\* both Huawei tables enriched
C21_Witness ==
    /\ ReturnedWithTables
    /\ device_platform = P_huawei_vrp
    /\ HasEngineRecord(HuaweiCpuTable)
    /\ HasEngineRecord(HuaweiMemoryTable)
    /\ ReturnedTable(HuaweiCpuTable).xs[1] =
          Rec(<<Item("cpu_usage_rate", S(<<"1","2",".","5">>)), Item("cpu_avg", S(<<"1","2">>))>>)
    /\ ReturnedTable(HuaweiMemoryTable).xs[1] =
          Rec(<<Item("total_memory", S(<<"1","0","0","0">>)), Item("used_memory", S(<<"2","5","0">>)),
                Item("memory_usage_percent", VFloat(2500))>>)
    /\ Get(ReturnedSummary, "cpu_avg") = S(<<"1","2">>)
    /\ Get(ReturnedSummary, "memory_usage_percent") = VFloat(2500)

\* the tables hold what the heuristics computed from their first records
Enriched(data) ==
    \A e \in Enrichments :
        (device_platform \in e.platforms /\ HasEngineRecord(e.command)) =>
            \A field \in e.fields : HasKey(Get(data, e.command).xs[1], field)

\* C22: the steps happen in the order detect platform, extract every
\* configured command, run the platform's CPU/Memory branch, run the
\* deduplicator over the tables, attach the summary under
\* Calculated_CPU_Memory, return: the deduplicator sees the enriched tables
\* but never the summary, and the value stored under Calculated_CPU_Memory
\* in the returned document is the final summary.
C22_FixedOrder ==
    [][ /\ pc = "call" =>
              /\ device_platform' = detect_platform(file_content)
              /\ pc' \in {"extract", "returned"}
        /\ pc = "extract" =>
              /\ Len(engine') = Len(engine) + 1
              /\ engine'[Len(engine')].command =
                    TemplatesFor(device_platform)[Len(engine')].command
              /\ pc' = IF Len(engine') = Len(TemplatesFor(device_platform))
                       THEN "heuristics" ELSE "extract"
        /\ pc = "heuristics" => pc' \in {"dedup", "raised"}
        /\ pc = "dedup" =>
              /\ pc' \in {"attach", "raised"}
              /\ Enriched(parsed_data_for_file)
              /\ ~HasKey(parsed_data_for_file, "Calculated_CPU_Memory")
              /\ device_specific_cpu_mem_data' = device_specific_cpu_mem_data
        /\ pc = "attach" =>
              /\ pc' = "returned"
              /\ KeySet(parsed_data_for_file') =
                    KeySet(parsed_data_for_file) \cup {"Calculated_CPU_Memory"}
              /\ Get(Get(ret', "data"), "Calculated_CPU_Memory") =
                    device_specific_cpu_mem_data
        /\ pc \notin {"returned", "raised"}
      ]_vars

\* a returned Aruba document: the deduplicator was given the enriched
\* 'show system' table without the summary, and the summary was attached after
C22_Witness ==
    /\ ReturnedWithTables
    /\ device_platform = P_aruba_aoscx
    /\ Len(engine) = Len(TemplatesFor(P_aruba_aoscx))
    /\ HasEngineRecord(ArubaTable)
    /\ Len(before) = 1
    /\ ~HasKey(before[1], "Calculated_CPU_Memory")
    /\ HasKey(Get(before[1], ArubaTable).xs[1], "cpu_max")
    /\ Get(Get(before[1], ArubaTable).xs[1], "cpu_max") = S(<<"7">>)
    /\ ReturnedSummary = device_specific_cpu_mem_data
    /\ Get(ReturnedSummary, "cpu_max") = S(<<"7">>)

\* C25: for Huawei platforms the heuristics only write cpu_avg and
\* memory_usage_percent: cpu_max of the summary is "N/A" in every returned
\* Huawei document, whatever the 'display cpu-usage' record holds.
C25_HuaweiCpuMaxStaysNA ==
    (ReturnedWithTables /\ device_platform \in HuaweiPlatforms) =>
        /\ Get(ReturnedSummary, "cpu_max") = VStr(<<"N","/","A">>)
        /\ HasEngineRecord(HuaweiCpuTable) =>
              ~HasKey(ReturnedTable(HuaweiCpuTable).xs[1], "cpu_max")

\* a CPU reading was found and reported as cpu_avg
C25_Witness ==
    /\ ReturnedWithTables
    /\ device_platform = P_huawei_yunshan
    /\ HasEngineRecord(HuaweiCpuTable)
    /\ HasKey(EngineRecord(HuaweiCpuTable), "cpu_usage_average")
    /\ ReturnedSummary =
          VDict(<<Item("cpu_max", VStr(<<"N","/","A">>)), Item("cpu_avg", S(<<"3","0">>)),
                  Item("memory_usage_percent", VStr(<<"N","/","A">>))>>)

CommandsOf(platform) ==
    {TemplatesFor(platform)[i].command : i \in DOMAIN TemplatesFor(platform)}

\* C26: the "Error" table shape is returned if and only if the detected
\* platform is "unknown": every platform named in the signature table has at
\* least one configured command, so a returned document of a recognised
\* platform holds its command tables and Calculated_CPU_Memory.
C26_ErrorIffUnknown ==
    /\ \A i \in DOMAIN ENV_PATTERNS : TemplatesFor(ENV_PATTERNS[i].platform) # <<>>
    /\ pc = "returned" =>
          /\ HasKey(Get(ret, "data"), "Error") <=> device_platform = P_unknown
          /\ device_platform = P_unknown => KeySet(Get(ret, "data")) = {"Error"}
          /\ device_platform # P_unknown =>
                /\ \E i \in DOMAIN ENV_PATTERNS :
                      ENV_PATTERNS[i].platform = device_platform
                /\ KeySet(Get(ret, "data")) =
                      CommandsOf(device_platform) \cup {"Calculated_CPU_Memory"}
                /\ CarriesSummary(ret)

\* a returned NX-OS document: four command tables, the summary, no "Error"
C26_Witness ==
    /\ pc = "returned"
    /\ device_platform = P_cisco_nxos
    /\ ~HasKey(Get(ret, "data"), "Error")
    /\ KeySet(Get(ret, "data")) =
          {"show version", "show inventory", "show interface",
           "show system resources", "Calculated_CPU_Memory"}

\* the tables a branch reads a first record from, with the summary fields
\* derived from that record
Readings ==
    Enrichments \cup
    { [platforms |-> {P_cisco_nxos}, command |-> NxosTable,
       fields |-> {"cpu_max", "cpu_avg", "memory_usage_percent"}] }

\* C27: when the table a heuristic reads from is empty (the engine failed or
\* returned no record) or its first record is empty, the summary fields
\* derived from that table stay "N/A" and no record is created or modified
\* in that table; for Cisco IOS the CPU fields are still computed from the
\* raw text in that case.
C27_EmptyTableLeavesDefaults ==
    ReturnedWithTables =>
        \A e \in Readings :
            (device_platform \in e.platforms /\ ~HasEngineRecord(e.command)) =>
                /\ \A field \in e.fields :
                      Get(ReturnedSummary, field) = VStr(<<"N","/","A">>)
                /\ ReturnedTable(e.command) = EngineAnswer(e.command)
                /\ device_platform = P_cisco_ios =>
                      /\ Get(ReturnedSummary, "cpu_max") = FromRawText("cpu_max")
                      /\ Get(ReturnedSummary, "cpu_avg") = FromRawText("cpu_avg")

\* Cisco IOS, the memory table holds one empty record: the CPU maximum comes
\* from the chart, the memory field stays "N/A", the record stays empty
C27_Witness ==
    /\ ReturnedWithTables
    /\ device_platform = P_cisco_ios
    /\ file_content = CpuHistoryChart
    /\ EngineAnswer(MemoryTable) = VList(<<Rec(<<>>)>>)
    /\ ReturnedTable(MemoryTable) = VList(<<Rec(<<>>)>>)
    /\ Get(ReturnedSummary, "cpu_max") = S(<<"5","7">>)
    /\ Get(ReturnedSummary, "memory_usage_percent") = VStr(<<"N","/","A">>)

\* the document with every list under a "serial"/"hardware" key blanked out:
\* what is left is the tables, their records in order, the keys, the
\* sequences under other keys and the scalar values
RECURSIVE Elsewhere(_)
Elsewhere(v) ==
    IF IsDict(v)
    THEN VDict([i \in DOMAIN v.kv |->
                  Item(v.kv[i].k,
                       IF v.kv[i].k \in SerialHardwareKeys /\ IsList(v.kv[i].v)
                       THEN VNone
                       ELSE Elsewhere(v.kv[i].v))])
    ELSE IF IsList(v) THEN VList([i \in DOMAIN v.xs |-> Elsewhere(v.xs[i])])
    ELSE v

\* C28: the deduplicator changes nothing except sequences stored under a
\* "serial"/"hardware" key: every command table keeps the same number of
\* records in the same order, every sequence under any other key keeps its
\* duplicates, and every scalar field value is unchanged.
C28_FrameOfDeduplicator ==
    Len(before) >= 1 =>
        LET given == before[Len(before)]
        IN  /\ Elsewhere(parsed_data_for_file) = Elsewhere(given)
            /\ \A i \in DOMAIN given.kv :
                  /\ parsed_data_for_file.kv[i].k = given.kv[i].k
                  /\ Len(parsed_data_for_file.kv[i].v.xs) = Len(given.kv[i].v.xs)

\* a sequence under "ports" with a value three times over, after the pass
C28_Witness ==
    /\ Len(before) = 1
    /\ before[1] =
          VDict(<<Item("show inventory",
                       VList(<<Rec(<<Item("ports",
                            VList(<<S(<<"A","1">>), S(<<"A","1">>), S(<<"A","1">>)>>))>>)>>))>>)
    /\ parsed_data_for_file = before[1]

\* C29: for Cisco IOS, when the 60-minute window is found but none of the
\* scanned trailing lines contains a '#', cpu_avg is "1" (not "N/A" and not
\* an error string); when a '#' line is found but holds no digit, cpu_avg is
\* the string "Error parsing average CPU".
C29_NoAverageLine ==
    (device_platform = P_cisco_ios /\ HeuristicsDone /\ HasWindow) =>
        LET window == WindowPieces
        IN  CompleteChart(window) =>
              /\ AverageLines(window) = <<>> => Summary("cpu_avg") = VStr(<<"1">>)
              /\ (AverageLines(window) # <<>> /\ AverageDigits(window) = <<>>)
                    => Summary("cpu_avg") = VStr(<<"E","r","r","o","r"," ","p","a","r","s","i","n","g"," ","a","v","e","r","a","g","e"," ","C","P","U">>)

\* a chart whose scale lines carry no '#'
C29_Witness ==
    /\ device_platform = P_cisco_ios
    /\ pc = "returned"
    /\ file_content =
          Chart(<<" "," "," "," ","4","2","5","1">>, <<" "," "," "," ","9","0","7","3">>, <<" ","4","0","\n"," ","3","0","\n"," ","2","0","\n"," ","1","0">>)
    /\ HasWindow
    /\ AverageLines(WindowPieces) = <<>>
    /\ Get(Get(Get(ret, "data"), "Calculated_CPU_Memory"), "cpu_avg") = VStr(<<"1">>)

----------------------------------------------------------------------------
(* Batches *)

\* the request is over
RequestEnded == response.status \in {"returned", "raised"}

\* the upload has an allowed extension and its capture parses to a document
Parses(upload) ==
    /\ Supported(upload)
    /\ upload.readable
    /\ parse_network_file(upload.content, upload.filename, upload.given).exc = "none"

\* the upload fails while it is parsed
FailsToParse(upload) ==
    /\ Supported(upload)
    /\ upload.readable
    /\ parse_network_file(upload.content, upload.filename, upload.given).exc # "none"

RowOf(upload) ==
    ParseResult(upload,
                parse_network_file(upload.content, upload.filename, upload.given).val)

Holds(rows, row) == \E k \in DOMAIN rows : rows[k] = row

\* C24: in a batch of N uploaded captures, a failure while parsing one
\* capture never corrupts or blocks the sibling captures: every other
\* capture with an allowed extension is still parsed and its result stored
\* and returned.
C24_SiblingsUnaffected ==
    RequestEnded =>
        \A i \in DOMAIN files :
            Parses(files[i]) =>
                /\ Holds(db, RowOf(files[i]))
                /\ response.status = "returned"
                /\ Holds(response.body, RowOf(files[i]))

\* what the call's capture gives when it is processed alone
Alone(l) == parse_network_file(l.file_content, l.filename, l.given)

\* C23: calls to parse_network_file share no mutable state: no call mutates
\* the signature table or the template table, and for captures processed in
\* any order or interleaving, each capture's returned document equals the
\* document obtained by processing that capture alone, given the same
\* engine answers.
C23_CallsShareNothing ==
    /\ env_patterns = ENV_PATTERNS
    /\ textfsm_templates = TEXTFSM_TEMPLATES
    /\ \A c \in DOMAIN calls :
          Ended(calls[c]) =>
              \E alone \in {Alone(calls[c])} :
                  /\ calls[c].pc = "returned" => alone = Returned(calls[c].ret)
                  /\ calls[c].pc = "raised" => alone = Raised(calls[c].exc)

\* the second call has returned its Huawei document while the first call is
\* in the middle of its extraction loop
C23_Witness ==
    /\ Len(calls) = 2
    /\ calls[1].pc = "extract"
    /\ calls[1].asked = 2
    /\ calls[1].device_platform = P_aruba_aoscx
    /\ calls[2].pc = "returned"
    /\ calls[2].device_platform = P_huawei_yunshan
    /\ Get(Get(Get(calls[2].ret, "data"), "Calculated_CPU_Memory"), "cpu_avg") = S(<<"1","2">>)
    /\ Get(Get(calls[2].ret, "data"), "display device") =
          VList(<<Rec(<<Item("serial", VList(<<S(<<"A","1">>)>>))>>)>>)
====
